---------------------------- MODULE Spec2Model ----------------------------
(***************************************************************************)
(* The binary XML codec of RhustApp (src/src/binary/node.rs) and the JID   *)
(* value it embeds (src/src/types/jid.rs).                                 *)
(*                                                                         *)
(* Representation.                                                         *)
(*   u8            an integer in 0..255                                    *)
(*   Vec<u8>       a sequence of u8                                        *)
(*   String, &str  the sequence of its UTF-8 bytes (what a Rust String     *)
(*                 is); s.len() is Len(s)                                  *)
(*   Option<u8>    <<>> for None, <<x>> for Some(x)                        *)
(*   usize         [hi, lo], the value hi * 2^16 + lo, because a length    *)
(*                 of 2^31 and more does not fit TLC's 32-bit integers     *)
(*   JID           [user, agent, device, server]                           *)
(*   NodeContentType, AttributeTypes                                       *)
(*                 [t |-> variant name, <payload field>]                   *)
(*   Attrs         a HashMap, written as the sequence of its <<key,        *)
(*                 value>> entries in the map's iteration order (keys      *)
(*                 distinct); two maps are equal when AttrsMap agrees      *)
(*   Node          [tag, attrs, content]                                   *)
(*   BinaryEncoder [data, panicked]: the buffer, and whether a panic!      *)
(*                 unwound the call (nothing is appended after it)         *)
(*   Result<T, E>  [st, val, idx]: st is "ok", "err" or "panic", val the   *)
(*                 value or the error kind, idx the decoder's cursor       *)
(*                 after the call                                          *)
(***************************************************************************)
EXTENDS Integers, Sequences, FiniteSets, TLC

(***************************************************************************)
(* binary/token: the module is not among the sources; the reserved tag     *)
(* bytes and the dictionaries below follow the names the codec uses.       *)
(***************************************************************************)
LIST_EMPTY == 0
DICTIONARY0 == 236
DICTIONARY1 == 237
DICTIONARY2 == 238
DICTIONARY3 == 239
ADJID == 247
LIST8 == 248
LIST16 == 249
JID_PAIR == 250
HEX8 == 251
BINARY8 == 252
BINARY20 == 253
BINARY32 == 254
NIBBLE8 == 255
PACKED_MAX == 127

\* An excerpt of the single-byte dictionary; entry i of the table is
\* SINGLE_BYTE_TOKENS[i + 1], and index 0 is the reserved empty string.
SINGLE_BYTE_TOKENS ==
    << <<>>,                                                              \* ""
       <<120, 109, 108, 115, 116, 114, 101, 97, 109, 115, 116, 97, 114, 116>>, \* "xmlstreamstart"
       <<120, 109, 108, 115, 116, 114, 101, 97, 109, 101, 110, 100>>,     \* "xmlstreamend"
       <<115, 46, 119, 104, 97, 116, 115, 97, 112, 112, 46, 110, 101, 116>>,   \* "s.whatsapp.net"
       <<116, 121, 112, 101>>,                                            \* "type"
       <<112, 97, 114, 116, 105, 99, 105, 112, 97, 110, 116>>,            \* "participant"
       <<102, 114, 111, 109>>,                                            \* "from"
       <<114, 101, 99, 101, 105, 112, 116>>,                              \* "receipt"
       <<105, 100>>,                                                      \* "id"
       <<98, 114, 111, 97, 100, 99, 97, 115, 116>>,                       \* "broadcast"
       <<115, 116, 97, 116, 117, 115>>,                                   \* "status"
       <<109, 101, 115, 115, 97, 103, 101>>,                              \* "message"
       <<110, 111, 116, 105, 102, 105, 99, 97, 116, 105, 111, 110>>,      \* "notification"
       <<110, 111, 116, 105, 102, 121>>,                                  \* "notify"
       <<116, 111>>,                                                      \* "to"
       <<105, 113>>,                                                      \* "iq"
       <<103, 101, 116>>,                                                 \* "get"
       <<48>>,                                                            \* "0"
       <<49>>,                                                            \* "1"
       <<97, 100, 100>> >>                                                \* "add"

\* An excerpt of the four double-byte dictionaries; entry i of dictionary d
\* is DOUBLE_BYTE_TOKENS[d + 1][i + 1].
DOUBLE_BYTE_TOKENS ==
    << << <<97, 99, 99, 111, 117, 110, 116, 95, 115, 121, 110, 99>>,      \* "account_sync"
          <<49, 48, 48>> >>,                                              \* "100"
       << <<114, 101, 97, 99, 116, 105, 111, 110>>,                       \* "reaction"
          <<99, 97, 102, 101>> >>,                                        \* "cafe"
       << <<102, 98, 110, 115>> >>,                                       \* "fbns"
       << <<50, 48, 48, 48>> >> >>                                        \* "2000"

\* token::index_of_single_token: the reverse index of the single-byte table.
index_of_single_token(s) ==
    LET hits == {i \in 1..(Len(SINGLE_BYTE_TOKENS) - 1) : SINGLE_BYTE_TOKENS[i + 1] = s}
    IN  IF hits = {} THEN <<>> ELSE <<CHOOSE i \in hits : \A j \in hits : i <= j>>

\* token::index_of_double_token: the reverse index of the double-byte tables,
\* Some((dictionary, index)) or None.
index_of_double_token(s) ==
    LET entries == UNION { {<<d, i>> : i \in 0..(Len(DOUBLE_BYTE_TOKENS[d + 1]) - 1)} :
                           d \in 0..(Len(DOUBLE_BYTE_TOKENS) - 1) }
        hits == {p \in entries : DOUBLE_BYTE_TOKENS[p[1] + 1][p[2] + 1] = s}
    IN  IF hits = {} THEN <<>> ELSE <<CHOOSE p \in hits : TRUE>>

\* token::get_single_token
get_single_token(i) ==
    IF i < Len(SINGLE_BYTE_TOKENS)
    THEN [st |-> "ok", val |-> SINGLE_BYTE_TOKENS[i + 1]]
    ELSE [st |-> "err", val |-> "InvalidToken"]

\* token::get_double_token
get_double_token(d, i) ==
    IF d < Len(DOUBLE_BYTE_TOKENS) /\ i < Len(DOUBLE_BYTE_TOKENS[d + 1])
    THEN [st |-> "ok", val |-> DOUBLE_BYTE_TOKENS[d + 1][i + 1]]
    ELSE [st |-> "err", val |-> "InvalidToken"]

(***************************************************************************)
(* Machine integers.                                                       *)
(***************************************************************************)
I32_MAX == 2147483647

\* usize from a small natural number.
Usize(n) == [hi |-> n \div 65536, lo |-> n % 65536]

\* `length < k` on usize, for k < 2^31.
UsizeLt(u, k) == u.hi < k \div 65536 \/ (u.hi = k \div 65536 /\ u.lo < k % 65536)

\* `length as i32`: the low 32 bits, read as two's complement.
AsI32(u) ==
    LET h == u.hi % 65536
    IN  (IF h >= 32768 THEN h - 65536 ELSE h) * 65536 + u.lo

\* `(value >> k) & 0xFF` on i32.
ShrByte(value, k) == (value \div (2 ^ k)) % 256

(***************************************************************************)
(* types/jid.rs                                                            *)
(***************************************************************************)
DEFAULT_USER_SERVER ==
    <<115, 46, 119, 104, 97, 116, 115, 97, 112, 112, 46, 110, 101, 116>>  \* "s.whatsapp.net"

GROUP_SERVER == <<103, 46, 117, 115>>                                     \* "g.us"

JID_new(user, server) ==
    [user |-> user, agent |-> <<>>, device |-> <<>>, server |-> server]

JID_new_ad(user, agent, device) ==
    [user |-> user, agent |-> <<agent>>, device |-> <<device>>,
     server |-> DEFAULT_USER_SERVER]

is_ad(jid) == jid.agent # <<>> /\ jid.device # <<>>

\* JID::is_empty
is_empty(jid) == Len(jid.server) # 0

(***************************************************************************)
(* NodeContentType, AttributeTypes, Node.  Each variant names its payload  *)
(* field after itself.                                                     *)
(***************************************************************************)
NoContent == [t |-> "None"]

Children(l) == [t |-> "ListOfNodes", nodes |-> l]

Bytes(b) == [t |-> "ByteArray", bytes |-> b]

Jid(j) == [t |-> "JID", jid |-> j]

Str(s) == [t |-> "String", s |-> s]

MkNode(tag, attrs, content) == [tag |-> tag, attrs |-> attrs, content |-> content]

\* Node::get_children: <<>> for None, <<nodes>> for Some(nodes).
get_children(n) ==
    IF n.content.t = "ListOfNodes" THEN <<n.content.nodes>> ELSE <<>>

\* The inner loop that keeps the last child with the tag, not the first.
RECURSIVE find_child_last(_, _, _)
find_child_last(children, tag, k) ==
    IF k > Len(children) THEN <<>>
    ELSE IF find_child_last(children, tag, k + 1) # <<>>
    THEN find_child_last(children, tag, k + 1)
    ELSE IF children[k].tag = tag THEN <<children[k]>> ELSE <<>>

\* `for child in children.unwrap()` from the k-th child on: the child at
\* which the loop leaves with `continue 'outer_loop`, <<>> when it runs out.
RECURSIVE find_child(_, _, _)
find_child(children, tag, k) ==
    IF k > Len(children) THEN <<>>
    ELSE IF children[k].tag = tag THEN <<children[k]>>
    ELSE find_child(children, tag, k + 1)

\* 'outer_loop over the tags still to walk, with final_child and children
\* as the loop holds them.
RECURSIVE outer_loop(_, _, _)
outer_loop(final_child, children, tags) ==
    IF tags = <<>> THEN <<final_child>>
    ELSE IF children = <<>> THEN <<>>
    ELSE IF find_child(children[1], tags[1], 1) = <<>> THEN <<>>
    ELSE outer_loop(find_child(children[1], tags[1], 1)[1],
                    get_children(find_child(children[1], tags[1], 1)[1]),
                    Tail(tags))

\* Node::get_optional_child_by_tag: <<>> for None, <<node>> for Some(node).
get_optional_child_by_tag(n, tags) == outer_loop(n, get_children(n), tags)

(***************************************************************************)
(* BinaryEncoder                                                           *)
(***************************************************************************)
Panic(e) == [e EXCEPT !.panicked = TRUE]

BinaryEncoder_new == [data |-> <<0>>, panicked |-> FALSE]

\* push_byte that puts the byte in front of the buffer.
push_byte_front(e, byte) ==
    IF e.panicked THEN e ELSE [e EXCEPT !.data = <<byte>> \o @]

push_byte(e, byte) ==
    IF e.panicked THEN e ELSE [e EXCEPT !.data = Append(@, byte)]

push_bytes(e, bytes) ==
    IF e.panicked THEN e ELSE [e EXCEPT !.data = @ \o bytes]

RECURSIVE push_i_n_from(_, _, _, _, _)
push_i_n_from(e, value, n, little_endian, i) ==
    IF i >= n THEN e
    ELSE LET current_shift == IF little_endian THEN i ELSE n - i - 1
         IN  push_i_n_from(push_byte(e, ShrByte(value, current_shift * 8)),
                           value, n, little_endian, i + 1)

push_i_n(e, value, n, little_endian) == push_i_n_from(e, value, n, little_endian, 0)

push_i_20(e, value) ==
    push_bytes(e, << ShrByte(value, 16) % 16, ShrByte(value, 8), ShrByte(value, 0) >>)

push_i_8(e, value) == push_i_n(e, value, 1, FALSE)

push_i_16(e, value) == push_i_n(e, value, 2, FALSE)

push_i_32(e, value) == push_i_n(e, value, 4, FALSE)

push_string(e, value) == push_bytes(e, value)

write_byte_length(e, length) ==
    IF e.panicked THEN e
    ELSE IF UsizeLt(length, 256)
         THEN push_i_8(push_byte(e, BINARY8), AsI32(length))
    ELSE IF UsizeLt(length, 2 ^ 20)
         THEN push_i_20(push_byte(e, BINARY20), AsI32(length))
    ELSE IF AsI32(length) < I32_MAX
         THEN push_i_32(push_byte(e, BINARY32), AsI32(length))
    ELSE Panic(e)

\* write_list_start with the LIST8 class reaching one size too far.
write_list_start_wide8(e, list_size) ==
    IF list_size = 0 THEN push_byte(e, LIST_EMPTY)
    ELSE IF list_size <= 256 THEN push_i_8(push_byte(e, LIST8), list_size)
    ELSE push_i_16(push_byte(e, LIST16), list_size)

write_list_start(e, list_size) ==
    IF list_size = 0 THEN push_byte(e, LIST_EMPTY)
    ELSE IF list_size < 256 THEN push_i_8(push_byte(e, LIST8), list_size)
    ELSE push_i_16(push_byte(e, LIST16), list_size)

validate_nibble(value) ==
    /\ Len(value) <= PACKED_MAX
    /\ \A i \in 1..Len(value) :
          (value[i] >= 48 /\ value[i] <= 57) \/ value[i] = 45 \/ value[i] = 46

\* -1 stands for the panic! of the last arm.
pack_nibble(value) ==
    CASE value = 45 -> 10                                   \* b'-'
      [] value = 46 -> 11                                   \* b'.'
      [] value = 0 -> 15
      [] value >= 48 /\ value <= 57 -> value - 48           \* b'0'..b'9'
      [] OTHER -> -1

validate_hex(value) ==
    /\ Len(value) <= PACKED_MAX
    /\ \A i \in 1..Len(value) :
          \/ (value[i] >= 48 /\ value[i] <= 57)             \* '0'..'9'
          \/ (value[i] >= 65 /\ value[i] <= 70)             \* 'A'..'F'
          \/ (value[i] >= 97 /\ value[i] <= 102)            \* 'a'..'f'

\* -1 stands for the panic! of the last arm.
pack_hex(value) ==
    CASE value >= 48 /\ value <= 57 -> value - 48
      [] value >= 65 /\ value <= 70 -> 10 + value - 65
      [] value >= 97 /\ value <= 102 -> 10 + value - 97
      [] value = 0 -> 15
      [] OTHER -> -1

\* The packer selected by write_packed_bytes for data_type.
packer(data_type, value) ==
    IF data_type = NIBBLE8 THEN pack_nibble(value) ELSE pack_hex(value)

\* -1 when the packer panicked on either part.
pack_byte_pair(data_type, part_1, part_2) ==
    IF packer(data_type, part_1) < 0 \/ packer(data_type, part_2) < 0 THEN -1
    ELSE packer(data_type, part_1) * 16 + packer(data_type, part_2)

\* `x |= 128` on u8.
Or128(x) == IF (x \div 128) % 2 = 1 THEN x ELSE x + 128

\* The least element of a non-empty set of integers.
Least(S) == CHOOSE x \in S : \A y \in S : x <= y

\* write_packed_bytes without the odd-length flag in the length byte.
write_packed_bytes_unflagged(e, value, data_type) ==
    IF e.panicked THEN e
    ELSE IF Len(value) > PACKED_MAX THEN Panic(e)
    ELSE LET half == (Len(value) + 1) \div 2
             e1 == push_byte(push_byte(e, data_type), half % 256)
             packed == [i \in 1..half |->
                          IF 2 * i <= Len(value)
                          THEN pack_byte_pair(data_type, value[2 * i - 1], value[2 * i])
                          ELSE pack_byte_pair(data_type, value[Len(value)], 0)]
             failed == {i \in 1..half : packed[i] < 0}
         IN  IF data_type \notin {NIBBLE8, HEX8} THEN Panic(e1)
             ELSE IF failed = {} THEN push_bytes(e1, packed)
             ELSE Panic(push_bytes(e1, SubSeq(packed, 1, Least(failed) - 1)))

\* The two loops are written as the sequence of the bytes they push: one per
\* pair of characters, then one for the odd last character paired with 0.  A
\* packer that panics ends the call after the bytes pushed before it.
write_packed_bytes(e, value, data_type) ==
    IF e.panicked THEN e
    ELSE IF Len(value) > PACKED_MAX THEN Panic(e)
    ELSE LET half == (Len(value) + 1) \div 2
             rounded_length == IF Len(value) % 2 # 0 THEN Or128(half % 256) ELSE half % 256
             e1 == push_byte(push_byte(e, data_type), rounded_length)
             packed == [i \in 1..half |->
                          IF 2 * i <= Len(value)
                          THEN pack_byte_pair(data_type, value[2 * i - 1], value[2 * i])
                          ELSE pack_byte_pair(data_type, value[Len(value)], 0)]
             failed == {i \in 1..half : packed[i] < 0}
         IN  IF data_type \notin {NIBBLE8, HEX8} THEN Panic(e1)
             ELSE IF failed = {} THEN push_bytes(e1, packed)
             ELSE Panic(push_bytes(e1, SubSeq(packed, 1, Least(failed) - 1)))

write_string_raw(e, data) ==
    push_string(write_byte_length(e, Usize(Len(data))), data)

write_bytes(e, data) ==
    push_bytes(write_byte_length(e, Usize(Len(data))), data)

\* write_string trying the packed forms before the token tables.
write_string_packed_first(e, data) ==
    IF validate_nibble(data) THEN write_packed_bytes(e, data, NIBBLE8)
    ELSE IF validate_hex(data) THEN write_packed_bytes(e, data, HEX8)
    ELSE IF index_of_single_token(data) # <<>>
    THEN push_byte(e, index_of_single_token(data)[1])
    ELSE IF index_of_double_token(data) # <<>>
    THEN push_byte(push_byte(e, DICTIONARY0 + index_of_double_token(data)[1][1]),
                   index_of_double_token(data)[1][2])
    ELSE write_string_raw(e, data)

write_string(e, data) ==
    IF index_of_single_token(data) # <<>>
    THEN push_byte(e, index_of_single_token(data)[1])
    ELSE IF index_of_double_token(data) # <<>>
    THEN push_byte(push_byte(e, DICTIONARY0 + index_of_double_token(data)[1][1]),
                   index_of_double_token(data)[1][2])
    ELSE IF validate_nibble(data) THEN write_packed_bytes(e, data, NIBBLE8)
    ELSE IF validate_hex(data) THEN write_packed_bytes(e, data, HEX8)
    ELSE write_string_raw(e, data)

\* write_jid with the device byte before the agent byte in the AD form.
write_jid_device_first(e, jid) ==
    IF is_ad(jid)
    THEN write_string(push_byte(push_byte(push_byte(e, ADJID), jid.device[1]),
                                jid.agent[1]),
                      jid.user)
    ELSE LET e1 == push_byte(e, JID_PAIR)
             e2 == IF Len(jid.user) = 0 THEN push_byte(e1, LIST_EMPTY)
                   ELSE write_string(e1, jid.user)
         IN  write_string(e2, jid.user)

\* The pair form writes the user a second time where the server belongs.
write_jid(e, jid) ==
    IF is_ad(jid)
    THEN write_string(push_byte(push_byte(push_byte(e, ADJID), jid.agent[1]),
                                jid.device[1]),
                      jid.user)
    ELSE LET e1 == push_byte(e, JID_PAIR)
             e2 == IF Len(jid.user) = 0 THEN push_byte(e1, LIST_EMPTY)
                   ELSE write_string(e1, jid.user)
         IN  write_string(e2, jid.user)

RECURSIVE write_attributes_from(_, _, _)
write_attributes_from(e, attributes, i) ==
    IF i > Len(attributes) THEN e
    ELSE LET key == attributes[i][1]
             value == attributes[i][2]
             e1 == IF value.t = "String"
                   THEN IF value.s # <<>>
                        THEN write_string(write_string(e, key), value.s)
                        ELSE e
                   ELSE write_jid(write_string(e, key), value.jid)
         IN  write_attributes_from(e1, attributes, i + 1)

write_attributes(e, attributes) == write_attributes_from(e, attributes, 1)

TAG_SIZE == 1

RECURSIVE write_node(_, _), write(_, _), write_nodes(_, _, _, _)

\* The encoder-only numeric and boolean variants (written as their decimal
\* text through write_string) are left out of the content type.
write(e, data) ==
    CASE data.t = "None" -> push_byte(e, LIST_EMPTY)
      [] data.t = "JID" -> write_jid(e, data.jid)
      [] data.t = "String" -> write_string(e, data.s)
      [] data.t = "ByteArray" -> write_bytes(e, data.bytes)
      [] data.t = "ListOfNodes" ->
            write_nodes(write_list_start(e, Len(data.nodes)), data.nodes, 1,
                        Len(data.nodes))

\* `for n in l.iter() { self.write_node(n) }` over l[from..to]; the range is
\* split in halves, written one after the other, to keep the evaluation flat.
write_nodes(e, l, from, to) ==
    IF from > to THEN e
    ELSE IF from = to THEN write_node(e, l[from])
    ELSE LET mid == (from + to) \div 2
             first == write_nodes(e, l, from, mid)
         IN  IF first.panicked THEN first ELSE write_nodes(first, l, mid + 1, to)

write_node(e, n) ==
    IF n.tag = <<48>>                                       \* "0"
    THEN push_byte(push_byte(e, LIST8), LIST_EMPTY)
    ELSE LET has_content == IF n.content.t = "None" THEN 0 ELSE 1
             e1 == write_list_start(e, 2 * Len(n.attrs) + TAG_SIZE + has_content)
             e2 == write_attributes(write_string(e1, n.tag), n.attrs)
         IN  IF has_content = 1 THEN write(e2, n.content) ELSE e2

(***************************************************************************)
(* BinaryDecoder.  Every reader takes the buffer d and the cursor i        *)
(* (self.data, self.index) and returns [st, val, idx].                     *)
(***************************************************************************)
Ok(v, i) == [st |-> "ok", val |-> v, idx |-> i]

Err(kind, i) == [st |-> "err", val |-> kind, idx |-> i]

Panicked(i) == [st |-> "panic", val |-> "panic", idx |-> i]

\* A length is a usize; a negative number n stands for the usize 2^64 + n
\* that `size as usize` makes of a negative i32.  "overflow" is the case in
\* which self.index + length exceeds usize::MAX.
check_eos(d, i, length) ==
    IF length < 0
    THEN IF i + length >= 0 THEN "overflow" ELSE "EOF"
    ELSE IF length > Len(d) - i THEN "EOF" ELSE "ok"

\* read_byte that leaves the cursor where it is.
read_byte_peek(d, i) ==
    IF check_eos(d, i, 1) # "ok" THEN Err("EOF", i) ELSE Ok(d[i + 1], i)

read_byte(d, i) ==
    IF check_eos(d, i, 1) # "ok" THEN Err("EOF", i) ELSE Ok(d[i + 1], i + 1)

\* `(byte as i32) << k`: a byte of 128 and more shifted by 24 sets the sign bit.
ShlI32(byte, k) ==
    IF k = 24 /\ byte >= 128 THEN (byte - 256) * (2 ^ 24) ELSE byte * (2 ^ k)

RECURSIVE read_i_n_from(_, _, _, _, _)
read_i_n_from(d, i, n, little_endian, k) ==
    IF k >= n THEN 0
    ELSE LET current_shift == IF little_endian THEN k ELSE n - k - 1
         IN  ShlI32(d[i + k + 1], current_shift * 8)
                + read_i_n_from(d, i, n, little_endian, k + 1)

read_i_n(d, i, n, little_endian) ==
    IF check_eos(d, i, n) # "ok" THEN Err("EOF", i)
    ELSE Ok(read_i_n_from(d, i, n, little_endian, 0), i + n)

read_i_8(d, i, little_endian) == read_i_n(d, i, 1, little_endian)

read_i_16(d, i, little_endian) == read_i_n(d, i, 2, little_endian)

read_i_32(d, i, little_endian) == read_i_n(d, i, 4, little_endian)

read_i_20(d, i) ==
    IF check_eos(d, i, 3) # "ok" THEN Err("EOF", i)
    ELSE Ok((d[i + 1] % 16) * 65536 + d[i + 2] * 256 + d[i + 3], i + 3)

\* The slice self.data[index..index + length]; when the addition overflowed,
\* a debug build panics in check_eos and a release build passes it with the
\* wrapped sum and panics on the slice, whose end lies before its start.
read_bytes(d, i, length) ==
    CASE check_eos(d, i, length) = "EOF" -> Err("EOF", i)
      [] check_eos(d, i, length) = "overflow" -> Panicked(i)
      [] OTHER -> Ok(SubSeq(d, i + 1, i + length), i + length)

unpack_nibble(value) ==
    CASE value < 10 -> Ok(48 + value, 0)
      [] value = 10 -> Ok(45, 0)
      [] value = 11 -> Ok(46, 0)
      [] value = 15 -> Ok(0, 0)
      [] OTHER -> Err("UnpackNibble", 0)

unpack_hex(value) ==
    CASE value < 10 -> Ok(48 + value, 0)
      [] value < 16 -> Ok(65 + value - 10, 0)
      [] OTHER -> Err("UnpackHex", 0)

unpack_byte(tag, value) ==
    CASE tag = NIBBLE8 -> unpack_nibble(value)
      [] tag = HEX8 -> unpack_hex(value)
      [] OTHER -> Err("UnpackTag", 0)

\* The loop reads start_byte & 127 bytes and unpacks two characters from
\* each; it is written over the bytes it reads: it ends at the first byte
\* that does not unpack, or at the end of the buffer.
\* ret[..ret.len() - 1] on the empty string: the subtraction underflows (debug
\* build) or the slice end is usize::MAX (release build); both panic.
read_packed_8(d, i, tag) ==
    LET start_byte == read_byte(d, i)
        j == start_byte.idx
        count == start_byte.val % 128
        present == IF Len(d) - j < count THEN Len(d) - j ELSE count
        lower(k) == unpack_byte(tag, d[j + k] \div 16)
        upper(k) == unpack_byte(tag, d[j + k] % 16)
        failed == {k \in 1..present : lower(k).st # "ok" \/ upper(k).st # "ok"}
        bytes == [m \in 1..(2 * count) |->
                     IF m % 2 = 1 THEN lower((m + 1) \div 2).val ELSE upper(m \div 2).val]
    IN  IF start_byte.st # "ok" THEN start_byte
        ELSE IF failed # {}
             THEN Err(IF lower(Least(failed)).st # "ok" THEN lower(Least(failed)).val
                      ELSE upper(Least(failed)).val,
                      j + Least(failed))
        ELSE IF present < count THEN Err("EOF", j + present)
        ELSE IF start_byte.val \div 128 # 0
             THEN IF Len(bytes) = 0 THEN Panicked(j + count)
                  ELSE Ok(SubSeq(bytes, 1, Len(bytes) - 1), j + count)
        ELSE Ok(bytes, j + count)

read_list_size(d, i, tag) ==
    CASE tag = LIST_EMPTY -> Ok(0, i)
      [] tag = LIST8 -> read_i_8(d, i, FALSE)
      [] tag = LIST16 -> read_i_16(d, i, FALSE)
      [] OTHER -> Err("UnknownListTag", i)

\* String::from_utf8 accepts exactly the well-formed UTF-8 byte sequences:
\* every byte that is not a continuation byte (128..191) is ASCII or a lead
\* byte, and is followed by exactly the continuation bytes it announces.
IsUtf8(b) ==
    LET IsCont(k) == k <= Len(b) /\ b[k] >= 128 /\ b[k] <= 191
        Follow(k) == CASE b[k] < 128 -> 0
                       [] b[k] >= 194 /\ b[k] <= 223 -> 1
                       [] b[k] >= 224 /\ b[k] <= 239 -> 2
                       [] b[k] >= 240 /\ b[k] <= 244 -> 3
                       [] OTHER -> -1
    IN  /\ ~IsCont(1)
        /\ \A k \in 1..Len(b) :
              IsCont(k) \/
                 /\ Follow(k) >= 0
                 /\ \A m \in 1..Follow(k) : IsCont(k + m)
                 /\ ~IsCont(k + Follow(k) + 1)
                 /\ (b[k] = 224 => b[k + 1] >= 160)
                 /\ (b[k] = 237 => b[k + 1] <= 159)
                 /\ (b[k] = 240 => b[k + 1] >= 144)
                 /\ (b[k] = 244 => b[k + 1] <= 143)

\* The `?` operator: an error or a panic of r ends the call with it, and
\* otherwise the call goes on with r.
Try(r, Then(_)) == IF r.st # "ok" THEN r ELSE Then(r)

\* The three BINARY arms of read once the size is read: size as usize bytes,
\* as a String when as_string is set.
read_binary(d, size, as_string) ==
    Try(size, LAMBDA sz :
    Try(read_bytes(d, sz.idx, sz.val), LAMBDA bytes :
        IF as_string
        THEN IF IsUtf8(bytes.val) THEN Ok(Str(bytes.val), bytes.idx)
             ELSE Err("InvalidUtf8", bytes.idx)
        ELSE Ok(Bytes(bytes.val), bytes.idx)))

\* Attrs::insert: the value of an existing key is replaced.
AttrsInsert(attrs, key, value) ==
    IF \E j \in 1..Len(attrs) : attrs[j][1] = key
    THEN [j \in 1..Len(attrs) |->
             IF attrs[j][1] = key THEN <<key, value>> ELSE attrs[j]]
    ELSE Append(attrs, <<key, value>>)

RECURSIVE read(_, _, _), read_tag(_, _, _, _), read_jid_pair(_, _), read_ad_jid(_, _),
          read_attributes_from(_, _, _, _), read_nodes(_, _, _),
          read_list(_, _, _), read_node(_, _)

read(d, i, as_string) ==
    Try(read_byte(d, i), LAMBDA tag_byte :
        read_tag(d, tag_byte.idx, tag_byte.val, as_string))

\* The match of read on tag_byte, the cursor being behind it.
read_tag(d, i, tag_byte, as_string) ==
    CASE tag_byte = LIST_EMPTY -> Ok(NoContent, i)
      [] tag_byte = LIST8 \/ tag_byte = LIST16 ->
            Try(read_list(d, i, tag_byte), LAMBDA l : Ok(Children(l.val), l.idx))
      [] tag_byte = BINARY8 -> read_binary(d, read_i_8(d, i, FALSE), as_string)
      [] tag_byte = BINARY20 -> read_binary(d, read_i_20(d, i), as_string)
      [] tag_byte = BINARY32 -> read_binary(d, read_i_32(d, i, FALSE), as_string)
      [] tag_byte \in {DICTIONARY0, DICTIONARY1, DICTIONARY2, DICTIONARY3} ->
            Try(read_i_8(d, i, FALSE), LAMBDA k :
            Try(get_double_token(tag_byte - DICTIONARY0, k.val) @@ [idx |-> k.idx],
                LAMBDA tok : Ok(Str(tok.val), k.idx)))
      [] tag_byte = JID_PAIR ->
            Try(read_jid_pair(d, i), LAMBDA r : Ok(Jid(r.val), r.idx))
      [] tag_byte = ADJID ->
            Try(read_ad_jid(d, i), LAMBDA r : Ok(Jid(r.val), r.idx))
      [] tag_byte = NIBBLE8 \/ tag_byte = HEX8 ->
            Try(read_packed_8(d, i, tag_byte), LAMBDA r : Ok(Str(r.val), r.idx))
      [] OTHER ->
            IF tag_byte >= 1 /\ tag_byte < Len(SINGLE_BYTE_TOKENS)
            THEN Try(get_single_token(tag_byte) @@ [idx |-> i],
                     LAMBDA tok : Ok(Str(tok.val), i))
            ELSE Err("InvalidToken", i)

read_jid_pair(d, i) ==
    Try(read(d, i, TRUE), LAMBDA user :
    Try(read(d, user.idx, TRUE), LAMBDA server :
        IF server.val.t = "String"
        THEN CASE user.val.t = "None" -> Ok(JID_new(<<>>, server.val.s), server.idx)
               [] user.val.t = "String" ->
                     Ok(JID_new(user.val.s, server.val.s), server.idx)
               [] OTHER -> Err("InvalidJIDType", server.idx)
        ELSE Err("InvalidJIDType", server.idx)))

read_ad_jid(d, i) ==
    Try(read_byte(d, i), LAMBDA agent :
    Try(read_byte(d, agent.idx), LAMBDA device :
    Try(read(d, device.idx, TRUE), LAMBDA user :
        IF user.val.t = "String"
        THEN Ok(JID_new_ad(user.val.s, agent.val, device.val), user.idx)
        ELSE Err("InvalidJIDType", user.idx))))

\* read_attributes that takes a value of any variant.
read_attributes_from_any(d, i, n, attrs) ==
    IF n <= 0 THEN Ok(attrs, i)
    ELSE Try(read(d, i, TRUE), LAMBDA key_ifc :
             IF key_ifc.val.t # "String" THEN Err("NonStringKey", key_ifc.idx)
             ELSE Try(read(d, key_ifc.idx, TRUE), LAMBDA value :
                      read_attributes_from(d, value.idx, n - 1,
                          AttrsInsert(attrs, key_ifc.val.s, value.val))))

\* The loop of read_attributes with n pairs still to read.
read_attributes_from(d, i, n, attrs) ==
    IF n <= 0 THEN Ok(attrs, i)
    ELSE Try(read(d, i, TRUE), LAMBDA key_ifc :
             IF key_ifc.val.t # "String" THEN Err("NonStringKey", key_ifc.idx)
             ELSE Try(read(d, key_ifc.idx, TRUE), LAMBDA value :
                      IF value.val.t \in {"JID", "String"}
                      THEN read_attributes_from(d, value.idx, n - 1,
                               AttrsInsert(attrs, key_ifc.val.s, value.val))
                      ELSE Err("InvalidType", value.idx)))

\* read_attributes that reads one pair more than it is asked for.
read_attributes_one_more(d, i, n) == read_attributes_from(d, i, n + 1, <<>>)

read_attributes(d, i, n) == read_attributes_from(d, i, n, <<>>)

\* `for _ in 0..size { nodes.push(self.read_node()?) }`: the nodes read and
\* the cursor after them, or the first failure; the count is split in halves,
\* read one after the other, to keep the evaluation flat.
read_nodes(d, i, size) ==
    IF size <= 0 THEN Ok(<<>>, i)
    ELSE IF size = 1
    THEN Try(read_node(d, i), LAMBDA node : Ok(<<node.val>>, node.idx))
    ELSE Try(read_nodes(d, i, size \div 2), LAMBDA first :
         Try(read_nodes(d, first.idx, size - size \div 2), LAMBDA rest :
             Ok(first.val \o rest.val, rest.idx)))

read_list(d, i, tag) ==
    Try(read_list_size(d, i, tag), LAMBDA size : read_nodes(d, size.idx, size.val))

\* read_node without the test for an empty tag.
read_node_untagged(d, i) ==
    Try(read_i_8(d, i, FALSE), LAMBDA size :
    Try(read_list_size(d, size.idx, size.val), LAMBDA list_size :
        IF list_size.val = 0 THEN Err("InvalidNode", list_size.idx)
        ELSE Try(read(d, list_size.idx, TRUE), LAMBDA raw_description :
             IF raw_description.val.t # "String"
             THEN Err("InvalidNode", raw_description.idx)
             ELSE Try(read_attributes(d, raw_description.idx, (list_size.val - 1) \div 2),
                      LAMBDA attributes :
                  IF list_size.val % 2 = 1
                  THEN Ok(MkNode(raw_description.val.s, attributes.val, NoContent),
                          attributes.idx)
                  ELSE Try(read(d, attributes.idx, FALSE), LAMBDA content :
                           Ok(MkNode(raw_description.val.s, attributes.val, content.val),
                              content.idx))))))

read_node(d, i) ==
    Try(read_i_8(d, i, FALSE), LAMBDA size :
    Try(read_list_size(d, size.idx, size.val), LAMBDA list_size :
        IF list_size.val = 0 THEN Err("InvalidNode", list_size.idx)
        ELSE Try(read(d, list_size.idx, TRUE), LAMBDA raw_description :
             IF raw_description.val.t # "String"
             THEN Err("InvalidNode", raw_description.idx)
             ELSE IF raw_description.val.s = <<>>
             THEN Err("InvalidNode", raw_description.idx)
             ELSE Try(read_attributes(d, raw_description.idx, (list_size.val - 1) \div 2),
                      LAMBDA attributes :
                  IF list_size.val % 2 = 1
                  THEN Ok(MkNode(raw_description.val.s, attributes.val, NoContent),
                          attributes.idx)
                  ELSE Try(read(d, attributes.idx, FALSE), LAMBDA content :
                           Ok(MkNode(raw_description.val.s, attributes.val, content.val),
                              content.idx))))))

(***************************************************************************)
(* The decoder call by call.  A step enters one call of read_node, read or *)
(* read_attributes, or hands a finished call's Result to its caller.  The  *)
(* callers that wait are the frames of the stack, the innermost last; a    *)
(* frame holds the locals its function still needs and `at`, the cursor at *)
(* its call.  A call of read that goes on into read_list, read_jid_pair or *)
(* read_ad_jid waits as the frame of that function.  A configuration is    *)
(* [stack, idx, ret]: the frames, the cursor, and the call or the Result   *)
(* under way.                                                              *)
(***************************************************************************)
\* The call of f under way, with its argument.
Calling(f, p, i) ==
    [op |-> "call", par |-> f, start |-> i, st |-> "ok",
     val |-> CASE f = "read" -> [as_string |-> p]
               [] f = "read_attributes" -> [n |-> p]
               [] OTHER -> <<>>]

\* The Result r of f under way: a value or a node as it is, an attribute map
\* and a failure under a name of their own.
Returning(f, r, at) ==
    [op |-> "return", par |-> f, start |-> at, st |-> r.st,
     val |-> IF r.st # "ok" THEN [failure |-> r.val]
             ELSE IF f = "read_attributes" THEN [attrs |-> r.val]
             ELSE r.val]

\* The Result a Returning holds, the cursor being i.
ResultOf(rt, i) ==
    [st |-> rt.st, idx |-> i,
     val |-> IF rt.st # "ok" THEN rt.val.failure
             ELSE IF rt.par = "read_attributes" THEN rt.val.attrs
             ELSE rt.val]

\* read_node up to its call of read(true).
enter_read_node(stack, d, i) ==
    LET r == Try(read_i_8(d, i, FALSE), LAMBDA size :
                 read_list_size(d, size.idx, size.val))
    IN  IF r.st # "ok"
        THEN [stack |-> stack, idx |-> r.idx, ret |-> Returning("read_node", r, i)]
        ELSE IF r.val = 0
        THEN [stack |-> stack, idx |-> r.idx,
              ret |-> Returning("read_node", Err("InvalidNode", r.idx), i)]
        ELSE [stack |-> Append(stack, [f |-> "read_node", pc |-> "tag", at |-> i,
                                       ls |-> r.val, tag |-> <<>>, attrs |-> <<>>]),
              idx |-> r.idx,
              ret |-> Calling("read", TRUE, r.idx)]

\* read up to the first call it or the function of its arm makes; the arms
\* that call nothing return at once.
enter_read(stack, d, i, as_string) ==
    LET tag_byte == read_byte(d, i)
        size == read_list_size(d, tag_byte.idx, tag_byte.val)
        bytes == Try(read_byte(d, tag_byte.idx), LAMBDA agent :
                 Try(read_byte(d, agent.idx), LAMBDA device :
                     Ok(<<agent.val, device.val>>, device.idx)))
        leaf == read_tag(d, tag_byte.idx, tag_byte.val, as_string)
    IN  IF tag_byte.st # "ok"
        THEN [stack |-> stack, idx |-> tag_byte.idx, ret |-> Returning("read", tag_byte, i)]
        ELSE CASE tag_byte.val = LIST8 \/ tag_byte.val = LIST16 ->
                    IF size.st # "ok"
                    THEN [stack |-> stack, idx |-> size.idx,
                          ret |-> Returning("read", size, i)]
                    ELSE IF size.val <= 0
                    THEN [stack |-> stack, idx |-> size.idx,
                          ret |-> Returning("read", Ok(Children(<<>>), size.idx), i)]
                    ELSE [stack |-> Append(stack, [f |-> "read_list", at |-> i,
                                                   n |-> size.val, nodes |-> <<>>]),
                          idx |-> size.idx,
                          ret |-> Calling("read_node", FALSE, size.idx)]
               [] tag_byte.val = JID_PAIR ->
                    [stack |-> Append(stack, [f |-> "read_jid_pair", pc |-> "user",
                                              at |-> i, user |-> NoContent]),
                     idx |-> tag_byte.idx,
                     ret |-> Calling("read", TRUE, tag_byte.idx)]
               [] tag_byte.val = ADJID ->
                    IF bytes.st # "ok"
                    THEN [stack |-> stack, idx |-> bytes.idx,
                          ret |-> Returning("read", bytes, i)]
                    ELSE [stack |-> Append(stack, [f |-> "read_ad_jid", at |-> i,
                                                   agent |-> bytes.val[1],
                                                   device |-> bytes.val[2]]),
                          idx |-> bytes.idx,
                          ret |-> Calling("read", TRUE, bytes.idx)]
               [] OTHER ->
                    [stack |-> stack, idx |-> leaf.idx, ret |-> Returning("read", leaf, i)]

\* read_attributes(n) up to the read of its first key.
enter_read_attributes(stack, i, n) ==
    IF n <= 0
    THEN [stack |-> stack, idx |-> i,
          ret |-> Returning("read_attributes", Ok(<<>>, i), i)]
    ELSE [stack |-> Append(stack, [f |-> "read_attributes", pc |-> "key", at |-> i,
                                   n |-> n, key |-> <<>>, attrs |-> <<>>]),
          idx |-> i,
          ret |-> Calling("read", TRUE, i)]

\* The innermost frame takes the Result r of the call it made: `?` hands an
\* Err on to its own caller, an Ok is worked on up to the frame's next call or
\* its return.
resume(stack, r) ==
    LET i == r.idx
        top == stack[Len(stack)]
        rest == SubSeq(stack, 1, Len(stack) - 1)
        Return(f, res) == [stack |-> rest, idx |-> i, ret |-> Returning(f, res, top.at)]
        Call(frame, f, p) ==
            [stack |-> Append(rest, frame), idx |-> i, ret |-> Calling(f, p, i)]
    IN  IF r.st # "ok"
        THEN Return(IF top.f = "read_node" \/ top.f = "read_attributes" THEN top.f
                    ELSE "read", r)
        ELSE CASE top.f = "read_node" /\ top.pc = "tag" ->
                    IF r.val.t # "String" THEN Return("read_node", Err("InvalidNode", i))
                    ELSE IF r.val.s = <<>> THEN Return("read_node", Err("InvalidNode", i))
                    ELSE Call([top EXCEPT !.tag = r.val.s, !.pc = "attrs"],
                              "read_attributes", (top.ls - 1) \div 2)
               [] top.f = "read_node" /\ top.pc = "attrs" ->
                    IF top.ls % 2 = 1
                    THEN Return("read_node", Ok(MkNode(top.tag, r.val, NoContent), i))
                    ELSE Call([top EXCEPT !.attrs = r.val, !.pc = "content"],
                              "read", FALSE)
               [] top.f = "read_node" /\ top.pc = "content" ->
                    Return("read_node", Ok(MkNode(top.tag, top.attrs, r.val), i))
               [] top.f = "read_list" ->
                    IF top.n = 1
                    THEN Return("read", Ok(Children(Append(top.nodes, r.val)), i))
                    ELSE Call([top EXCEPT !.n = @ - 1, !.nodes = Append(@, r.val)],
                              "read_node", FALSE)
               [] top.f = "read_attributes" /\ top.pc = "key" ->
                    IF r.val.t # "String"
                    THEN Return("read_attributes", Err("NonStringKey", i))
                    ELSE Call([top EXCEPT !.key = r.val.s, !.pc = "value"], "read", TRUE)
               [] top.f = "read_attributes" /\ top.pc = "value" ->
                    IF r.val.t \notin {"JID", "String"}
                    THEN Return("read_attributes", Err("InvalidType", i))
                    ELSE IF top.n = 1
                    THEN Return("read_attributes",
                                Ok(AttrsInsert(top.attrs, top.key, r.val), i))
                    ELSE Call([top EXCEPT !.n = @ - 1, !.pc = "key",
                                          !.attrs = AttrsInsert(@, top.key, r.val)],
                              "read", TRUE)
               [] top.f = "read_jid_pair" /\ top.pc = "user" ->
                    Call([top EXCEPT !.user = r.val, !.pc = "server"], "read", TRUE)
               [] top.f = "read_jid_pair" /\ top.pc = "server" ->
                    IF r.val.t = "String"
                    THEN CASE top.user.t = "None" ->
                                Return("read", Ok(Jid(JID_new(<<>>, r.val.s)), i))
                           [] top.user.t = "String" ->
                                Return("read", Ok(Jid(JID_new(top.user.s, r.val.s)), i))
                           [] OTHER -> Return("read", Err("InvalidJIDType", i))
                    ELSE Return("read", Err("InvalidJIDType", i))
               [] top.f = "read_ad_jid" ->
                    IF r.val.t = "String"
                    THEN Return("read",
                                Ok(Jid(JID_new_ad(r.val.s, top.agent, top.device)), i))
                    ELSE Return("read", Err("InvalidJIDType", i))

\* The Adler-32 checksum of a byte sequence, as its four big-endian bytes.
Adler32(b) ==
    LET S1[k \in 0..Len(b)] == IF k = 0 THEN 1 ELSE (S1[k - 1] + b[k]) % 65521
        S2[k \in 0..Len(b)] == IF k = 0 THEN 0 ELSE (S2[k - 1] + S1[k]) % 65521
    IN  <<S2[Len(b)] \div 256, S2[Len(b)] % 256, S1[Len(b)] \div 256, S1[Len(b)] % 256>>

\* A zlib stream holding the bytes in one stored (uncompressed) deflate block:
\* CMF FLG, the block header with BFINAL set, LEN and its complement in
\* little-endian order, the bytes, the checksum.
zlib(rest) ==
    <<120, 1, 1, Len(rest) % 256, Len(rest) \div 256,
      255 - (Len(rest) % 256), 255 - (Len(rest) \div 256)>> \o rest \o Adler32(rest)

\* flate2::read::ZlibDecoder read to its end, for streams of one stored block:
\* [st, val].  The outcome for a stream cut short is not modelled and no input
\* is one.
inflate(z) ==
    IF Len(z) < 7 THEN [st |-> "err", val |-> <<>>]
    ELSE IF z[1] % 16 # 8 \/ (z[1] * 256 + z[2]) % 31 # 0 \/ (z[2] \div 32) % 2 = 1
    THEN [st |-> "err", val |-> <<>>]
    ELSE IF z[3] % 8 # 1 THEN [st |-> "err", val |-> <<>>]
    ELSE LET len == z[4] + 256 * z[5]
         IN  IF z[6] # 255 - z[4] \/ z[7] # 255 - z[5] \/ Len(z) < 11 + len
             THEN [st |-> "err", val |-> <<>>]
             ELSE IF SubSeq(z, 8 + len, 11 + len) # Adler32(SubSeq(z, 8, 7 + len))
             THEN [st |-> "err", val |-> <<>>]
             ELSE [st |-> "ok", val |-> SubSeq(z, 8, 7 + len)]

\* decoder.read_to_string(&mut decoded_string): the stream must inflate and
\* its bytes must be UTF-8.
read_to_string(z) ==
    IF inflate(z).st # "ok" THEN [st |-> "err", val |-> <<>>]
    ELSE IF ~IsUtf8(inflate(z).val) THEN [st |-> "err", val |-> <<>>]
    ELSE inflate(z)

\* unpack_data with the test of the first byte as `data_type > 0`.
unpack_data_any_bit(buf) ==
    IF Len(buf) = 0 THEN Err("EmptyData", 0)
    ELSE IF buf[1] > 0
    THEN IF read_to_string(Tail(buf)).st # "ok" THEN Err("DecompressFailed", 0)
         ELSE Ok(read_to_string(Tail(buf)).val, 0)
    ELSE Ok(SubSeq(buf, 2, Len(buf)), 0)

unpack_data(buf) ==
    IF Len(buf) = 0 THEN Err("EmptyData", 0)
    ELSE IF (buf[1] \div 2) % 2 = 1
    THEN IF read_to_string(Tail(buf)).st # "ok" THEN Err("DecompressFailed", 0)
         ELSE Ok(read_to_string(Tail(buf)).val, 0)
    ELSE Ok(SubSeq(buf, 2, Len(buf)), 0)

(***************************************************************************)
(* AttrUtility.  A call returns [val, errors]: the Option it returns and   *)
(* the error list it leaves.  An i64 or u64 is [neg, mag], its sign and    *)
(* the decimal digits of its magnitude without leading zeros; an           *)
(* OffsetDateTime is its Unix timestamp; an i32 is an integer.             *)
(***************************************************************************)
EMPTY_JID == JID_new(<<>>, <<>>)

\* Attrs::get
attrs_get(attrs, key) ==
    LET hits == {j \in 1..Len(attrs) : attrs[j][1] = key}
    IN  IF hits = {} THEN <<>> ELSE <<attrs[CHOOSE j \in hits : TRUE][2]>>

\* Node::attr_getter
attr_getter(attrs) == [attrs |-> attrs, errors |-> <<>>]

\* push_error that records the error whether or not the attribute is required.
push_error_always(u, required, what, key) ==
    Append(u.errors, [what |-> what, key |-> key])

\* push_error that keeps only the newest error.
push_error_replacing(u, required, what, key) ==
    IF required THEN <<[what |-> what, key |-> key]>> ELSE u.errors

\* self.errors.push(new_rhustapp_error(..)) when required
push_error(u, required, what, key) ==
    IF required THEN Append(u.errors, [what |-> what, key |-> key]) ELSE u.errors

get_jid(u, key, required) ==
    LET found == attrs_get(u.attrs, key)
    IN  IF found = <<>>
        THEN [val |-> <<>>, errors |-> push_error(u, required, "no JID", key)]
        ELSE IF found[1].t = "JID"
        THEN [val |-> <<found[1].jid>>, errors |-> u.errors]
        ELSE [val |-> <<>>, errors |-> push_error(u, required, "not a JID", key)]

get_string(u, key, required) ==
    LET found == attrs_get(u.attrs, key)
    IN  IF found = <<>>
        THEN [val |-> <<>>, errors |-> push_error(u, required, "no String", key)]
        ELSE IF found[1].t = "String"
        THEN [val |-> <<found[1].s>>, errors |-> u.errors]
        ELSE [val |-> <<>>, errors |-> push_error(u, required, "not a String", key)]

IsDecimal(s) == s # <<>> /\ \A k \in 1..Len(s) : s[k] >= 48 /\ s[k] <= 57

\* The digits without leading zeros.
StripZeros(s) ==
    LET nz == {k \in 1..Len(s) : s[k] # 48}
    IN  IF nz = {} THEN <<48>> ELSE SubSeq(s, Least(nz), Len(s))

\* a <= b for two numbers in digits without leading zeros.
DecLe(a, b) ==
    \/ Len(a) < Len(b)
    \/ /\ Len(a) = Len(b)
       /\ LET diff == {k \in 1..Len(a) : a[k] # b[k]}
          IN  diff = {} \/ a[Least(diff)] < b[Least(diff)]

I64_MAX == <<57, 50, 50, 51, 51, 55, 50, 48, 51, 54, 56, 53, 52, 55, 55, 53, 56, 48, 55>>
I64_MIN == <<57, 50, 50, 51, 51, 55, 50, 48, 51, 54, 56, 53, 52, 55, 55, 53, 56, 48, 56>>
U64_MAX == <<49, 56, 52, 52, 54, 55, 52, 52, 48, 55, 51, 55, 48, 57, 53, 53, 49, 54, 49, 53>>

\* str::parse::<i64>: an optional sign, then digits; <<>> for Err.
parse_i64(s) ==
    LET signed == s # <<>> /\ s[1] \in {43, 45}
        digits == IF signed THEN Tail(s) ELSE s
        neg == signed /\ s[1] = 45
    IN  IF ~IsDecimal(digits) THEN <<>>
        ELSE IF ~DecLe(StripZeros(digits), IF neg THEN I64_MIN ELSE I64_MAX) THEN <<>>
        ELSE << [neg |-> neg /\ StripZeros(digits) # <<48>>, mag |-> StripZeros(digits)] >>

\* str::parse::<u64>: an optional '+', then digits; <<>> for Err.
parse_u64(s) ==
    LET digits == IF s # <<>> /\ s[1] = 43 THEN Tail(s) ELSE s
    IN  IF ~IsDecimal(digits) THEN <<>>
        ELSE IF ~DecLe(StripZeros(digits), U64_MAX) THEN <<>>
        ELSE << [neg |-> FALSE, mag |-> StripZeros(digits)] >>

get_i64(u, key, required) ==
    LET s == get_string(u, key, required)
    IN  IF s.val = <<>> THEN s
        ELSE IF parse_i64(s.val[1]) # <<>>
        THEN [val |-> parse_i64(s.val[1]), errors |-> s.errors]
        ELSE [val |-> <<>>, errors |-> push_error(s, required, "no i64", key)]

get_u64(u, key, required) ==
    LET s == get_string(u, key, required)
    IN  IF s.val = <<>> THEN s
        ELSE IF parse_u64(s.val[1]) # <<>>
        THEN [val |-> parse_u64(s.val[1]), errors |-> s.errors]
        ELSE [val |-> <<>>, errors |-> push_error(s, required, "no u64", key)]

TRUE_STRINGS ==
    { <<49>>, <<116>>, <<84>>,
      <<116, 114, 117, 101>>, <<84, 82, 85, 69>>, <<84, 114, 117, 101>> }
FALSE_STRINGS ==
    { <<48>>, <<102>>, <<70>>,
      <<102, 97, 108, 115, 101>>, <<70, 65, 76, 83, 69>>, <<70, 97, 108, 115, 101>> }

\* get_bool that takes every string it does not know for false.
get_bool_lenient(u, key, required) ==
    LET s == get_string(u, key, required)
    IN  IF s.val = <<>> THEN s
        ELSE IF s.val[1] \in TRUE_STRINGS THEN [val |-> <<TRUE>>, errors |-> s.errors]
        ELSE [val |-> <<FALSE>>, errors |-> s.errors]

get_bool(u, key, required) ==
    LET s == get_string(u, key, required)
    IN  IF s.val = <<>> THEN s
        ELSE IF s.val[1] \in TRUE_STRINGS THEN [val |-> <<TRUE>>, errors |-> s.errors]
        ELSE IF s.val[1] \in FALSE_STRINGS THEN [val |-> <<FALSE>>, errors |-> s.errors]
        ELSE [val |-> <<>>, errors |-> push_error(s, required, "no bool", key)]

\* The timestamps OffsetDateTime::from_unix_timestamp accepts: the years
\* -9999 to 9999.
MIN_TIMESTAMP == <<51, 55, 55, 55, 48, 53, 49, 49, 54, 56, 48, 48>>
MAX_TIMESTAMP == <<50, 53, 51, 52, 48, 50, 51, 48, 48, 55, 57, 57>>

from_unix_timestamp(ts) ==
    IF DecLe(ts.mag, IF ts.neg THEN MIN_TIMESTAMP ELSE MAX_TIMESTAMP) THEN <<ts>> ELSE <<>>

get_unix_time(u, key, required) ==
    LET ts == get_i64(u, key, required)
    IN  IF ts.val = <<>> THEN ts
        ELSE IF ts.val[1].mag = <<48>> THEN ts
        ELSE [val |-> from_unix_timestamp(ts.val[1]), errors |-> ts.errors]

\* AttrUtility::ok
ok(u) == Len(u.errors) = 0

\* AttrUtility::error: the errors joined into the detail of one error.
error(u) ==
    IF ok(u) THEN <<>>
    ELSE <<[what |-> "error(s) occured while fetching attributes", detail |-> u.errors]>>

\* acc * 10 + digit on u32, wrapping; acc is [hi, lo] in 16-bit halves.
MulAdd32(acc, digit) ==
    CHOOSE r \in { [lo |-> (a.lo * 10 + digit) % 65536,
                    hi |-> (a.hi * 10 + ((a.lo * 10 + digit) \div 65536)) % 65536]
                   : a \in {acc} } : TRUE

\* 0 - w on u32, wrapping.
Neg32(w) ==
    [lo |-> (65536 - w.lo) % 65536,
     hi |-> (65535 - w.hi + (IF w.lo = 0 THEN 1 ELSE 0)) % 65536]

\* `i as i32`: the low 32 bits of the i64, read as two's complement.
I64AsI32(v) ==
    LET W[k \in 0..Len(v.mag)] ==
            IF k = 0 THEN [hi |-> 0, lo |-> 0] ELSE MulAdd32(W[k - 1], v.mag[k] - 48)
    IN  AsI32(IF v.neg THEN Neg32(W[Len(v.mag)]) ELSE W[Len(v.mag)])

get_i32(u, key, required) ==
    LET i == get_i64(u, key, required)
    IN  IF i.val = <<>> THEN i ELSE [val |-> <<I64AsI32(i.val[1])>>, errors |-> i.errors]

optional_jid_or_empty(u, key) ==
    LET j == get_jid(u, key, FALSE)
    IN  [val |-> IF j.val = <<>> THEN EMPTY_JID ELSE j.val[1], errors |-> j.errors]

(***************************************************************************)
(* types/jid.rs: the string form of a JID.  str::find returns Option<usize>: *)
(* <<>> for None, <<k>> for Some(k), k counted from 0.                     *)
(***************************************************************************)
\* The decimal digits of a number, as the {} of format! writes a u8.
RECURSIVE format_u8(_)
format_u8(n) ==
    IF n < 10 THEN <<48 + n>> ELSE Append(format_u8(n \div 10), 48 + (n % 10))

\* JID::to_string
to_string(jid) ==
    IF is_ad(jid)
    THEN jid.user \o <<46>> \o format_u8(jid.agent[1]) \o <<58>>
             \o format_u8(jid.device[1]) \o <<64>> \o jid.server
    ELSE IF Len(jid.user) > 0 THEN jid.user \o <<64>> \o jid.server
    ELSE jid.server

\* str::find of a one-byte pattern: the index of its first occurrence.
find(s, c) ==
    IF \E k \in 1..Len(s) : s[k] = c
    THEN <<(CHOOSE k \in 1..Len(s) : s[k] = c /\ \A m \in 1..(k - 1) : s[m] # c) - 1>>
    ELSE <<>>

contains(s, c) == find(s, c) # <<>>

\* s.split("@").collect(): the pieces between the '@'s, at least one.
RECURSIVE split(_)
split(s) ==
    IF find(s, 64) = <<>> THEN <<s>>
    ELSE <<SubSeq(s, 1, find(s, 64)[1])>> \o split(SubSeq(s, find(s, 64)[1] + 2, Len(s)))

\* The digits of str::parse::<u8> behind the sign: every byte a decimal
\* digit, the value checked against u8::MAX at every digit.
RECURSIVE parse_u8_digits(_, _)
parse_u8_digits(t, acc) ==
    IF t = <<>> THEN <<acc>>
    ELSE IF t[1] < 48 \/ t[1] > 57 THEN <<>>
    ELSE IF acc * 10 + (t[1] - 48) > 255 THEN <<>>
    ELSE parse_u8_digits(Tail(t), acc * 10 + (t[1] - 48))

\* parse::<u8> that keeps the low eight bits of a number that is too big.
RECURSIVE parse_u8_wrapping_digits(_, _)
parse_u8_wrapping_digits(t, acc) ==
    IF t = <<>> THEN <<acc>>
    ELSE IF t[1] < 48 \/ t[1] > 57 THEN <<>>
    ELSE parse_u8_wrapping_digits(Tail(t), (acc * 10 + (t[1] - 48)) % 256)

parse_u8_wrapping(t) ==
    IF t = <<>> THEN <<>> ELSE parse_u8_wrapping_digits(t, 0)

\* str::parse::<u8>: <<>> for Err, <<n>> for Ok(n).  An empty string and a
\* lone sign are errors; one leading '+' is accepted, '-' is no digit.
parse_u8(t) ==
    IF t = <<>> THEN <<>>
    ELSE IF Len(t) = 1 /\ t[1] \in {43, 45} THEN <<>>
    ELSE IF t[1] = 43 THEN parse_u8_digits(Tail(t), 0)
    ELSE parse_u8_digits(t, 0)

parse_ad_jid(user) ==
    LET dot_opt == find(user, 46)
        colon_opt == find(user, 58)
    IN  IF dot_opt = <<>> \/ colon_opt = <<>> THEN Err("missing separators", 0)
        ELSE LET dot_index == dot_opt[1]
                 colon_index == colon_opt[1]
                 agent == parse_u8(SubSeq(user, dot_index + 2, colon_index))
                 device == parse_u8(SubSeq(user, colon_index + 2, Len(user)))
             IN  IF colon_index + 1 <= dot_index
                 THEN Err("separators not in correct order", 0)
                 ELSE IF agent = <<>> THEN Err("failed to parse agent string to u8", 0)
                 ELSE IF device = <<>> THEN Err("failed to parse device string to u8", 0)
                 ELSE Ok([user |-> SubSeq(user, 1, dot_index), agent |-> agent,
                          device |-> device, server |-> DEFAULT_USER_SERVER], 0)

\* <JID as FromStr>::from_str
from_str(s) ==
    LET parts == split(s)
    IN  IF Len(parts) = 0 THEN Err("failed to split string on '@'", 0)
        ELSE IF Len(parts) = 1 THEN Ok(JID_new(<<>>, parts[1]), 0)
        ELSE IF contains(parts[1], 58) /\ contains(parts[1], 46)
                    /\ parts[2] = DEFAULT_USER_SERVER
        THEN parse_ad_jid(parts[1])
        ELSE Ok(JID_new(parts[1], parts[2]), 0)

(***************************************************************************)
(* The XML printer.  A Vec<String> is a sequence of strings.  A char is its *)
(* code point; the printer is modelled for code points up to U+00FF.       *)
(***************************************************************************)
INDENT_XML == FALSE

MAX_BYTES_TO_PRINT_AS_HEX == 128

\* char::is_alphanumeric up to U+00FF: the Unicode properties Alphabetic and
\* Numeric (categories Nd, Nl, No) of Basic Latin and Latin-1 Supplement.
is_alphanumeric(c) ==
    \/ c >= 48 /\ c <= 57
    \/ c >= 65 /\ c <= 90
    \/ c >= 97 /\ c <= 122
    \/ c \in {170, 178, 179, 181, 185, 186, 188, 189, 190}
    \/ c >= 192 /\ c <= 255 /\ c # 215 /\ c # 247

\* s.chars() of well-formed UTF-8 made of one-byte and two-byte sequences:
\* the code point that starts at each byte that is no continuation byte.
chars(s) ==
    { IF s[k] < 128 THEN s[k] ELSE (s[k] - 192) * 64 + (s[k + 1] - 128) :
          k \in { m \in 1..Len(s) : s[m] < 128 \/ s[m] >= 192 } }

printable(data) ==
    IF ~IsUtf8(data) THEN <<>>
    ELSE IF \E c \in chars(data) : ~is_alphanumeric(c) THEN <<>>
    ELSE data

\* hex::encode: two lowercase hexadecimal digits for each byte.
hex_digit(v) == IF v < 10 THEN 48 + v ELSE 87 + v

hex_encode(b) ==
    [k \in 1..(2 * Len(b)) |->
        IF k % 2 = 1 THEN hex_digit(b[(k + 1) \div 2] \div 16)
        ELSE hex_digit(b[k \div 2] % 16)]

\* s.split(c): the pieces between the occurrences of the byte c.
RECURSIVE split_on(_, _)
split_on(s, c) ==
    IF find(s, c) = <<>> THEN <<s>>
    ELSE <<SubSeq(s, 1, find(s, c)[1])>> \o split_on(SubSeq(s, find(s, c)[1] + 2, Len(s)), c)

\* [..].join(sep), and Vec::append of every element when sep is empty.
RECURSIVE join(_, _)
join(strs, sep) ==
    IF strs = <<>> THEN <<>>
    ELSE IF Len(strs) = 1 THEN strs[1]
    ELSE strs[1] \o sep \o join(Tail(strs), sep)

\* content.replace("\n", "\\n")
replace_newlines(s) == join(split_on(s, 10), <<92, 110>>)

\* The chunks of 80 characters of the hex data.
hex_lines(hex_data) ==
    [k \in 1..((Len(hex_data) + 79) \div 80) |->
        SubSeq(hex_data, 80 * (k - 1) + 1,
               IF Len(hex_data) < 80 * k THEN Len(hex_data) ELSE 80 * k)]

\* NodeContentType::other_types_to_string
other_types_to_string(c) ==
    CASE c.t = "JID" -> to_string(c.jid)
      [] c.t = "String" -> c.s
      [] OTHER -> <<>>

\* The order of Vec<String>::sort: byte by byte, a prefix first.
RECURSIVE str_less(_, _)
str_less(a, b) ==
    IF b = <<>> THEN FALSE
    ELSE IF a = <<>> THEN TRUE
    ELSE IF a[1] # b[1] THEN a[1] < b[1]
    ELSE str_less(Tail(a), Tail(b))

\* AttributeTypes::to_string
attribute_to_string(value) == IF value.t = "JID" THEN to_string(value.jid) ELSE value.s

\* Node::attribute_string
attribute_string(n) ==
    IF n.attrs = <<>> THEN <<>>
    ELSE join(SortSeq([k \in 1..Len(n.attrs) |->
                          n.attrs[k][1] \o <<61, 34>>
                              \o attribute_to_string(n.attrs[k][2]) \o <<34>>],
                      str_less),
              <<32>>)

RECURSIVE xml_string(_), content_string(_)

\* Node::content_string.  What is handed to hex::encode is content, the
\* string printable returned, as the code has it.
content_string(n) ==
    LET bytes_vec ==
            LET content == printable(n.content.bytes)
            IN  IF content # <<>>
                THEN IF INDENT_XML THEN split_on(content, 10)
                     ELSE <<replace_newlines(content)>>
                ELSE IF Len(content) > MAX_BYTES_TO_PRINT_AS_HEX
                THEN <<(<<60, 33, 45, 45, 32>> \o format_u8(Len(content))
                           \o <<32, 98, 121, 116, 101, 115, 32, 45, 45, 62>>)>>
                ELSE IF ~INDENT_XML THEN <<hex_encode(content)>>
                ELSE hex_lines(hex_encode(content))
        other_vec ==
            IF INDENT_XML THEN split_on(other_types_to_string(n.content), 10)
            ELSE <<replace_newlines(other_types_to_string(n.content))>>
        content_vec ==
            CASE n.content.t = "None" -> <<>>
              [] n.content.t = "ListOfNodes" ->
                    join([k \in 1..Len(n.content.nodes) |->
                             split_on(xml_string(n.content.nodes[k]), 10)], <<>>)
              [] n.content.t = "ByteArray" -> bytes_vec
              [] OTHER -> other_vec
    IN  IF Len(content_vec) > 1 /\ INDENT_XML
        THEN [k \in 1..Len(content_vec) |-> <<32>> \o content_vec[k]]
        ELSE content_vec

\* Node::xml_string
xml_string(n) ==
    LET attributes == attribute_string(n)
        content == content_string(n)
        new_line == IF Len(content) = 1 \/ ~INDENT_XML THEN <<>> ELSE <<10>>
    IN  IF content = <<>>
        THEN <<60>> \o n.tag \o <<32>> \o attributes \o <<32, 47, 62>>
        ELSE <<60>> \o n.tag \o <<32>> \o attributes \o <<62>> \o new_line
                 \o join(content, new_line) \o new_line \o <<60, 47>> \o n.tag \o <<62>>

(***************************************************************************)
(* The inputs of the model.                                                *)
(***************************************************************************)
MaxStrLen == 2
MaxChildren == 2
MaxAttrs == 2
WideList == 300

\* All sequences over S of length at most k.
RECURSIVE SeqsUpTo(_, _)
SeqsUpTo(S, k) ==
    IF k = 0 THEN {<<>>}
    ELSE LET shorter == SeqsUpTo(S, k - 1)
         IN  shorter \cup {Append(q, x) : q \in {r \in shorter : Len(r) = k - 1}, x \in S}

Digits(n) == [i \in 1..n |-> 48 + (i % 10)]

Letters(n) == [i \in 1..n |-> 103 + (i % 20)]

\* '0' '1' '-' 'a' 'F' 'z'
Alphabet == {48, 49, 45, 97, 70, 122}

NamedStrings ==
    { <<105, 113>>,                                     \* "iq"
      <<105, 100>>,                                     \* "id"
      <<116, 121, 112, 101>>,                           \* "type"
      <<103, 101, 116>>,                                \* "get"
      <<116, 111>>,                                     \* "to"
      <<109, 101, 115, 115, 97, 103, 101>>,             \* "message"
      <<97, 100, 100>>,                                 \* "add"
      <<49, 48, 48>>,                                   \* "100"
      <<99, 97, 102, 101>>,                             \* "cafe"
      <<102, 98, 110, 115>>,                            \* "fbns"
      <<50, 48, 48, 48>>,                               \* "2000"
      <<97, 98, 99>>,                                   \* "abc"
      <<97, 98, 99, 100, 101, 102>>,                    \* "abcdef"
      <<65, 66, 67, 68, 69, 70>>,                       \* "ABCDEF"
      <<49, 50, 51, 52, 53, 54, 55, 56, 57, 48>>,       \* "1234567890"
      <<49, 50, 45, 51, 46, 52>>,                       \* "12-3.4"
      <<53, 53, 53>>,                                   \* "555"
      <<97, 108, 105, 99, 101>>,                        \* "alice"
      <<104, 101, 108, 108, 111>>,                      \* "hello"
      <<120, 49>>,                                      \* "x1"
      <<195, 169>>,                                     \* "e" with an acute accent
      DEFAULT_USER_SERVER, GROUP_SERVER,
      Digits(PACKED_MAX - 1), Digits(PACKED_MAX), Digits(PACKED_MAX + 1),
      Letters(255), Letters(256) }

Strings == SeqsUpTo(Alphabet, MaxStrLen) \cup NamedStrings

ByteArrays == { <<>>, <<222, 173, 190, 239>>, <<0, 255>>, Letters(256) }

U8s == {0, 1, 255}

PairJIDs ==
    { JID_new(u, s) :
        u \in { <<>>, <<97, 108, 105, 99, 101>>, <<53, 53, 53>>, GROUP_SERVER, <<49>> },
        s \in { DEFAULT_USER_SERVER, GROUP_SERVER, <<97, 108, 105, 99, 101>>, <<49>> } }

AdJIDs ==
    { JID_new_ad(u, a, dv) :
        u \in { <<53>>, <<53, 53, 53>>, <<48>>, <<49, 48, 48>>,
                <<52, 52, 55, 57, 49, 49, 50, 51, 52, 53, 54, 55>>,
                Digits(PACKED_MAX), Digits(PACKED_MAX + 1) },
        a \in U8s, dv \in U8s }

\* Trees without attributes, up to depth 3.
LeafContents == {NoContent} \cup {Bytes(b) : b \in ByteArrays}

TopTags ==
    { <<105, 113>>, <<109, 101, 115, 115, 97, 103, 101>>, <<48>>, <<97, 98, 99>>,
      <<120, 49>>, <<49, 50>>, <<65, 66>>, <<97, 100, 100>> }
      \* "iq" "message" "0" "abc" "x1" "12" "AB" "add"

TopLeaves == { MkNode(tg, <<>>, c) : tg \in TopTags, c \in LeafContents }

Leaves ==
    { MkNode(tg, <<>>, c) :
        tg \in { <<105, 113>>, <<120, 49>>, <<97, 98, 99>> },
        c \in { NoContent, Bytes(<<222, 173, 190, 239>>) } }

Mids ==
    { MkNode(tg, <<>>, Children(l)) :
        tg \in { <<109, 101, 115, 115, 97, 103, 101>>, <<48>> },
        l \in SeqsUpTo(Leaves, MaxChildren) }

Tops == { MkNode(<<105, 113>>, <<>>, Children(<<m>>)) : m \in Mids }

\* Depth 3 with n children at the middle level.
Wide(n, leaf) ==
    MkNode(<<105, 113>>, <<>>,
           Children(<< MkNode(<<109, 101, 115, 115, 97, 103, 101>>, <<>>,
                              Children([i \in 1..n |-> leaf])) >>))

Wides ==
    { Wide(n, leaf) :
        n \in {255, 256, WideList},
        leaf \in { MkNode(<<120, 49>>, <<>>, NoContent),
                   MkNode(<<105, 113>>, <<>>, Bytes(<<0, 255>>)) } }

TreeNodes == TopLeaves \cup Mids \cup Tops \cup Wides

\* Nodes with attributes; an attribute list is a map in one iteration order.
AttrKeys == { <<105, 100>>, <<116, 121, 112, 101>>, <<120, 49>> }
    \* "id" "type" "x1"

AttrValues ==
    { Str(<<>>), Str(<<103, 101, 116>>), Str(<<97, 98, 99>>),
      Jid(JID_new_ad(<<53, 53, 53>>, 0, 1)),
      Jid(JID_new(<<97, 108, 105, 99, 101>>, GROUP_SERVER)) }

AttrLists ==
    { l \in SeqsUpTo(AttrKeys \X AttrValues, MaxAttrs) :
        \A i, j \in 1..Len(l) : i # j => l[i][1] # l[j][1] }

AttrNodes ==
    { MkNode(tg, l, c) :
        tg \in { <<105, 113>> },
        l \in AttrLists \ {<<>>},
        c \in { NoContent, Bytes(<<222, 173, 190, 239>>) } }

JidNodes ==
    { MkNode(tg, << <<k, Jid(j)>> >>, Bytes(b)) :
        tg \in { <<109, 101, 115, 115, 97, 103, 101>> },
        k \in { <<116, 111>>, <<120, 49>> },
        j \in AdJIDs,
        b \in { <<>>, <<222, 173, 190, 239>> } }

Nodes == TreeNodes \cup AttrNodes \cup JidNodes

\* usize values around the size classes of write_byte_length.
Lengths ==
    [ hi : {0, 1, 15, 16, 32767, 32768, 65535, 65536, 98303},
      lo : {0, 1, 255, 256, 65534, 65535} ]

ListSizes == (0..WideList) \cup {511, 512, 4095, 4096, 32767, 32768, 65534, 65535}

(***************************************************************************)
(* The state: one encoder, then one decoder over what it wrote.            *)
(***************************************************************************)
VARIABLES
    data,       \* BinaryEncoder.data
    panicked,   \* the encoder call ended in panic!
    arg,        \* the encoder call made: [op, v]
    phase,      \* "encode" until BinaryDecoder::new, then "decode"
    dec,        \* BinaryDecoder.data
    index,      \* BinaryDecoder.index
    ret,        \* the last call that returns a value: [op, par, start, st, val]
    errors      \* AttrUtility.errors

vars == <<data, panicked, arg, phase, dec, index, ret, errors>>

NoRet == [op |-> "none", par |-> <<>>, start |-> 0, st |-> "ok", val |-> <<>>]

\* BinaryEncoder::new
Init ==
    /\ data = BinaryEncoder_new.data
    /\ panicked = BinaryEncoder_new.panicked
    /\ arg = [op |-> "new", v |-> <<>>]
    /\ phase = "encode"
    /\ dec = <<>>
    /\ index = 0
    /\ ret = NoRet
    /\ errors = <<>>

Encoder == [data |-> data, panicked |-> panicked]

\* One call on the fresh encoder.
Encoded(op, v, e) ==
    /\ phase = "encode"
    /\ arg.op = "new"
    /\ data' = e.data
    /\ panicked' = e.panicked
    /\ arg' = [op |-> op, v |-> v]
    /\ UNCHANGED <<phase, dec, index, ret, errors>>

WriteNode == \E n \in Nodes : Encoded("write_node", n, write_node(Encoder, n))

WriteString == \E s \in Strings : Encoded("write_string", s, write_string(Encoder, s))

WriteJid ==
    \E j \in PairJIDs \cup AdJIDs : Encoded("write_jid", j, write_jid(Encoder, j))

WriteByteLength ==
    \E l \in Lengths : Encoded("write_byte_length", l, write_byte_length(Encoder, l))

WriteListStart ==
    \E n \in ListSizes : Encoded("write_list_start", n, write_list_start(Encoder, n))

\* BinaryDecoder::new(&unpack_data(&encoder.get_data())?)
NewDecoder ==
    /\ phase = "encode"
    /\ ~panicked
    /\ unpack_data(data).st = "ok"
    /\ phase' = "decode"
    /\ dec' = unpack_data(data).val
    /\ index' = 0
    /\ ret' = NoRet
    /\ UNCHANGED <<data, panicked, arg, errors>>

\* One decoder call: the cursor moves to where the call left it.
Decoded(op, par, r) ==
    /\ phase = "decode"
    /\ ret.st # "panic"
    /\ ret' = [op |-> op, par |-> par, start |-> index, st |-> r.st, val |-> r.val]
    /\ index' = r.idx
    /\ UNCHANGED <<data, panicked, arg, phase, dec, errors>>

ReadByte == Decoded("read_byte", <<>>, read_byte(dec, index))

ReadI8 == Decoded("read_i_8", <<>>, read_i_8(dec, index, FALSE))

ReadI16 == Decoded("read_i_16", <<>>, read_i_16(dec, index, FALSE))

ReadI20 == Decoded("read_i_20", <<>>, read_i_20(dec, index))

ReadI32 == Decoded("read_i_32", <<>>, read_i_32(dec, index, FALSE))

\* read_list_size(tag), the tag being the byte just read (as read_node and
\* read do).
ReadListSize ==
    /\ ret.op \in {"read_byte", "read_i_8"}
    /\ ret.st = "ok"
    /\ Decoded("read_list_size", ret.val, read_list_size(dec, index, ret.val))

Read == \E as_string \in BOOLEAN : Decoded("read", as_string, read(dec, index, as_string))

ReadNode == Decoded("read_node", <<>>, read_node(dec, index))

\* Node trees through write_node and read_node.
Next ==
    \/ WriteNode
    \/ NewDecoder
    \/ ReadNode

Spec == Init /\ [][Next]_vars

\* Strings and JIDs through write_string, write_jid and read.
NextValue ==
    \/ WriteString
    \/ WriteJid
    \/ NewDecoder
    \/ Read

SpecValue == Init /\ [][NextValue]_vars

\* Length prefixes and list headers through the integer readers.
NextFrame ==
    \/ WriteByteLength
    \/ WriteListStart
    \/ NewDecoder
    \/ ReadByte
    \/ ReadI8
    \/ ReadI16
    \/ ReadI20
    \/ ReadI32
    \/ ReadListSize

SpecFrame == Init /\ [][NextFrame]_vars

\* The bytes a call on a fresh encoder leaves behind the leading 0x00.
Wire(e) == SubSeq(e.data, 2, Len(e.data))

\* Values as they stand on the wire: the token "id", the empty list, two
\* bytes behind BINARY8, an AD-JID, the empty string in packed form, a list
\* of one node, and a list of one node whose tag is the empty string.
WireValues ==
    { Wire(write_string(BinaryEncoder_new, <<105, 100>>)),
      <<LIST_EMPTY>>,
      Wire(write_bytes(BinaryEncoder_new, <<104, 105>>)),
      Wire(write_jid(BinaryEncoder_new, JID_new_ad(<<53, 53, 53>>, 0, 1))),
      <<NIBBLE8, 0>>,
      <<LIST8, 1, LIST8, 1>> \o Wire(write_string(BinaryEncoder_new, <<105, 113>>)),
      <<LIST8, 1, LIST8, 1, NIBBLE8, 0>> }

\* The list headers of sizes 0..4 and 256, and a byte that is no list tag.
WireHeaders ==
    { Wire(write_list_start(BinaryEncoder_new, n)) : n \in {0, 1, 2, 3, 4, 256} }
        \cup {<<BINARY8>>}

MaxWireValues == 4

RECURSIVE Flat(_)
Flat(ss) == IF ss = <<>> THEN <<>> ELSE ss[1] \o Flat(Tail(ss))

\* A header followed by up to MaxWireValues values, whatever the header says.
WirePayloads ==
    { h \o Flat(vs) : h \in WireHeaders, vs \in SeqsUpTo(WireValues, MaxWireValues) }

\* What is compressed: text, the empty sequence, and bytes that are not UTF-8.
Rests == { <<>>, <<104, 105>>, <<195, 169>>, <<255>>, <<104, 128>>,
           <<LIST8, 1>> \o Wire(write_string(BinaryEncoder_new, <<105, 113>>)) }

\* A stream with a wrong checksum, and bytes that are no zlib stream.
BadStreams == { <<120, 1, 1, 1, 0, 254, 255, 104, 0, 0, 0, 0>>, <<104, 105>>, <<>> }

\* The buffers handed to unpack_data.
Buffers ==
    {<<>>}
        \cup { <<0>> \o p : p \in WirePayloads }
        \cup { <<f>> \o r : f \in {1, 4, 253}, r \in Rests }
        \cup { <<f>> \o zlib(r) : f \in {2, 3, 255}, r \in Rests }
        \cup { <<2>> \o z : z \in BadStreams }

\* unpack_data(&buf), and BinaryDecoder::new over what it returns.
UnpackData ==
    /\ phase = "encode"
    /\ arg.op = "new"
    /\ \E buf \in Buffers :
          /\ arg' = [op |-> "unpack_data", v |-> buf]
          /\ ret' = [op |-> "unpack_data", par |-> <<>>, start |-> 0,
                     st |-> unpack_data(buf).st, val |-> unpack_data(buf).val]
          /\ phase' = IF unpack_data(buf).st = "ok" THEN "decode" ELSE "failed"
          /\ dec' = IF unpack_data(buf).st = "ok" THEN unpack_data(buf).val ELSE <<>>
    /\ index' = 0
    /\ UNCHANGED <<data, panicked, errors>>

\* read_node as the first call on the decoder of a received buffer.
ReadReceivedNode ==
    /\ ret.op = "unpack_data"
    /\ ReadNode

\* Received buffers through unpack_data and read_node.
NextWire ==
    \/ UnpackData
    \/ ReadReceivedNode

SpecWire == Init /\ [][NextWire]_vars

\* The attribute values the getters are asked for: the strings the boolean
\* getter knows, numbers at the bounds of i32, i64, u64 and of the
\* timestamps, strings that are no numbers, and a JID.
GetterStrings ==
    TRUE_STRINGS \cup FALSE_STRINGS \cup
    { <<>>,
      <<50>>,
      <<121, 101, 115>>,
      <<116, 82, 85, 69>>,
      <<53>>,
      <<45, 53>>,
      <<43, 53>>,
      <<48, 48, 55>>,
      <<45>>,
      <<97, 98, 99>>,
      <<57, 50, 50, 51, 51, 55, 50, 48, 51, 54, 56, 53, 52, 55, 55, 53, 56, 48, 55>>,
      <<57, 50, 50, 51, 51, 55, 50, 48, 51, 54, 56, 53, 52, 55, 55, 53, 56, 48, 56>>,
      <<45, 57, 50, 50, 51, 51, 55, 50, 48, 51, 54, 56, 53, 52, 55, 55, 53, 56, 48, 56>>,
      <<45, 57, 50, 50, 51, 51, 55, 50, 48, 51, 54, 56, 53, 52, 55, 55, 53, 56, 48, 57>>,
      <<49, 56, 52, 52, 54, 55, 52, 52, 48, 55, 51, 55, 48, 57, 53, 53, 49, 54, 49, 53>>,
      <<49, 56, 52, 52, 54, 55, 52, 52, 48, 55, 51, 55, 48, 57, 53, 53, 49, 54, 49, 54>>,
      <<52, 50, 57, 52, 57, 54, 55, 50, 57, 54>>,
      <<50, 49, 52, 55, 52, 56, 51, 54, 52, 56>>,
      <<50, 53, 51, 52, 48, 50, 51, 48, 48, 55, 57, 57>>,
      <<50, 53, 51, 52, 48, 50, 51, 48, 48, 56, 48, 48>>,
      <<45, 51, 55, 55, 55, 48, 53, 49, 49, 54, 56, 48, 48>>,
      <<45, 51, 55, 55, 55, 48, 53, 49, 49, 54, 56, 48, 49>> }

\* "id" is a key of every map but the empty one, "x1" of none.
GetterKeys == {<<105, 100>>, <<120, 49>>}

UtilityAttrs ==
    {<<>>}
        \cup { << <<(<<105, 100>>), Str(v)>> >> : v \in GetterStrings }
        \cup { << <<(<<105, 100>>), Jid(j)>> >> : j \in {JID_new_ad(<<53, 53, 53>>, 0, 1)} }
        \cup { << <<(<<105, 100>>), Str(<<49>>)>>,
                  <<(<<116, 111>>), Jid(JID_new(<<>>, GROUP_SERVER))>> >> }

MaxErrors == 2

\* Node::attr_getter on a node with these attributes.
AttrGetter ==
    /\ phase = "encode"
    /\ arg.op = "new"
    /\ \E a \in UtilityAttrs :
          /\ arg' = [op |-> "attr_getter", v |-> a]
          /\ errors' = attr_getter(a).errors
    /\ phase' = "attrs"
    /\ UNCHANGED <<data, panicked, dec, index, ret>>

Utility == [attrs |-> arg.v, errors |-> errors]

\* One call on the AttrUtility; ret.start is the number of errors before it.
Got(op, key, r) ==
    /\ phase = "attrs"
    /\ Len(r.errors) <= MaxErrors
    /\ errors' = r.errors
    /\ ret' = [op |-> op, par |-> key, start |-> Len(errors), st |-> "ok", val |-> r.val]
    /\ UNCHANGED <<data, panicked, arg, phase, dec, index>>

OptionalJid == \E key \in GetterKeys : Got("optional_jid", key, get_jid(Utility, key, FALSE))

OptionalJidOrEmpty ==
    \E key \in GetterKeys :
        Got("optional_jid_or_empty", key, optional_jid_or_empty(Utility, key))

GetJid == \E key \in GetterKeys : Got("jid", key, get_jid(Utility, key, TRUE))

OptionalString ==
    \E key \in GetterKeys : Got("optional_string", key, get_string(Utility, key, FALSE))

GetString == \E key \in GetterKeys : Got("string", key, get_string(Utility, key, TRUE))

GetI64 == \E key \in GetterKeys : Got("i64", key, get_i64(Utility, key, TRUE))

GetU64 == \E key \in GetterKeys : Got("u64", key, get_u64(Utility, key, TRUE))

OptionalBool ==
    \E key \in GetterKeys : Got("optional_bool", key, get_bool(Utility, key, FALSE))

GetBool == \E key \in GetterKeys : Got("bool", key, get_bool(Utility, key, TRUE))

OptionalUnixTime ==
    \E key \in GetterKeys :
        Got("optional_unix_time", key, get_unix_time(Utility, key, FALSE))

GetUnixTime == \E key \in GetterKeys : Got("unix_time", key, get_unix_time(Utility, key, TRUE))

OptionalI32 == \E key \in GetterKeys : Got("optional_i32", key, get_i32(Utility, key, FALSE))

GetI32 == \E key \in GetterKeys : Got("i32", key, get_i32(Utility, key, TRUE))

UtilityOk == Got("ok", <<>>, [val |-> ok(Utility), errors |-> errors])

UtilityError == Got("error", <<>>, [val |-> error(Utility), errors |-> errors])

\* The getters of an AttrUtility, called one after the other.
NextAttrs ==
    \/ AttrGetter
    \/ OptionalJid
    \/ OptionalJidOrEmpty
    \/ GetJid
    \/ OptionalString
    \/ GetString
    \/ GetI64
    \/ GetU64
    \/ OptionalBool
    \/ GetBool
    \/ OptionalUnixTime
    \/ GetUnixTime
    \/ OptionalI32
    \/ GetI32
    \/ UtilityOk
    \/ UtilityError

SpecAttrs == Init /\ [][NextAttrs]_vars

MaxBuffer == 2

\* One more call on the encoder, as long as its buffer is short.
Appended(op, v, e) ==
    /\ phase = "encode"
    /\ ~panicked
    /\ Len(data) <= MaxBuffer
    /\ data' = e.data
    /\ panicked' = e.panicked
    /\ arg' = [op |-> op, v |-> v]
    /\ UNCHANGED <<phase, dec, index, ret, errors>>

PushedBytes == {0, 2, 255}

PushedInts == {1, 65534}

PushedStrings == {<<>>, <<105, 113>>, <<49>>, <<120>>, <<49, 120>>}

PushByte == \E x \in PushedBytes : Appended("push_byte", x, push_byte(Encoder, x))

PushBytes == \E x \in PushedStrings : Appended("push_bytes", x, push_bytes(Encoder, x))

PushIN ==
    \E x \in PushedInts, n \in {1, 3}, le \in BOOLEAN :
        Appended("push_i_n", <<x, n, le>>, push_i_n(Encoder, x, n, le))

PushI20 == \E x \in PushedInts : Appended("push_i_20", x, push_i_20(Encoder, x))

PushI8 == \E x \in PushedInts : Appended("push_i_8", x, push_i_8(Encoder, x))

PushI16 == \E x \in PushedInts : Appended("push_i_16", x, push_i_16(Encoder, x))

PushI32 == \E x \in PushedInts : Appended("push_i_32", x, push_i_32(Encoder, x))

PushString == \E x \in PushedStrings : Appended("push_string", x, push_string(Encoder, x))

AppendByteLength ==
    \E l \in {Usize(0), Usize(256), [hi |-> 32767, lo |-> 65535]} :
        Appended("write_byte_length", l, write_byte_length(Encoder, l))

AppendNode ==
    \E n \in {MkNode(<<105, 113>>, <<>>, NoContent), MkNode(<<48>>, <<>>, NoContent),
              MkNode(<<120>>, << <<(<<105, 100>>), Str(<<49>>)>> >>, Bytes(<<2>>))} :
        Appended("write_node", n, write_node(Encoder, n))

AppendContent ==
    \E c \in {NoContent, Bytes(<<2>>), Str(<<2>>),
              Children(<<MkNode(<<105, 113>>, <<>>, NoContent)>>)} :
        Appended("write", c, write(Encoder, c))

AppendString ==
    \E x \in PushedStrings : Appended("write_string", x, write_string(Encoder, x))

AppendBytes == \E x \in PushedStrings : Appended("write_bytes", x, write_bytes(Encoder, x))

AppendStringRaw ==
    \E x \in PushedStrings : Appended("write_string_raw", x, write_string_raw(Encoder, x))

AppendJid ==
    \E j \in {JID_new(<<>>, GROUP_SERVER), JID_new(<<49>>, GROUP_SERVER),
              JID_new_ad(<<49>>, 2, 2)} :
        Appended("write_jid", j, write_jid(Encoder, j))

AppendAttributes ==
    \E a \in {<<>>, << <<(<<105, 100>>), Str(<<>>)>> >>,
              << <<(<<105, 100>>), Str(<<49>>)>> >>} :
        Appended("write_attributes", a, write_attributes(Encoder, a))

AppendListStart ==
    \E n \in {0, 2, 256} : Appended("write_list_start", n, write_list_start(Encoder, n))

AppendPackedBytes ==
    \E x \in PushedStrings, t \in {NIBBLE8, HEX8, BINARY8} :
        Appended("write_packed_bytes", <<x, t>>, write_packed_bytes(Encoder, x, t))

\* Any sequence of calls on one encoder, then unpack_data on its buffer.
NextEncoder ==
    \/ PushByte
    \/ PushBytes
    \/ PushIN
    \/ PushI20
    \/ PushI8
    \/ PushI16
    \/ PushI32
    \/ PushString
    \/ AppendByteLength
    \/ AppendNode
    \/ AppendContent
    \/ AppendString
    \/ AppendBytes
    \/ AppendStringRaw
    \/ AppendJid
    \/ AppendAttributes
    \/ AppendListStart
    \/ AppendPackedBytes
    \/ NewDecoder

SpecEncoder == Init /\ [][NextEncoder]_vars

\* Users without a separator, and the texts written for agent and device.
JidUsers == {<<>>, <<49>>, <<97, 98>>}

NumeralTexts ==
    { <<48>>, <<55>>, <<50, 53, 53>>, <<50, 53, 54>>, <<48, 49>>, <<43, 53>>,
      <<>>, <<120>>, <<45, 49>> }

JidServers == {DEFAULT_USER_SERVER, GROUP_SERVER, <<>>}

\* "u.a:d"
AdText(u, a, d) == u \o <<46>> \o a \o <<58>> \o d

\* "u:a.d"
SwappedText(u, a, d) == u \o <<58>> \o a \o <<46>> \o d

\* What stands left of the '@': AD forms, the separators in the other
\* order, a dot alone, a colon alone, a plain user.
AdLefts == { AdText(u, a, d) : u \in JidUsers, a \in NumeralTexts, d \in NumeralTexts }

SwappedLefts ==
    { SwappedText(u, a, d) : u \in JidUsers, a \in {<<48>>, <<120>>}, d \in {<<55>>} }

JidLefts == AdLefts \cup SwappedLefts \cup { <<49, 46, 50>>, <<49, 58, 50>> } \cup JidUsers

\* The strings parsed: left@server, a server alone, and two '@'s.
JidStrings ==
    { l \o <<64>> \o srv : l \in JidLefts, srv \in JidServers }
        \cup JidServers
        \cup { <<97, 64, 98, 64, 99>> }

\* The users handed to the constructors: some hold the separators.
BuiltUsers ==
    JidUsers \cup { <<49, 46, 50, 58, 51>>, <<97, 46, 98>>, <<97, 58, 98>> }

MaxConversions == 4

\* A JID or a string enters: arg keeps it, and ret.start counts the
\* conversions made since.
Entered(op, v, r) ==
    /\ phase = "encode"
    /\ arg.op = "new"
    /\ arg' = [op |-> op, v |-> v]
    /\ ret' = [op |-> op, par |-> v, start |-> 0, st |-> r.st, val |-> r.val]
    /\ phase' = "jid"
    /\ UNCHANGED <<data, panicked, dec, index, errors>>

JidNew ==
    \E user \in BuiltUsers, server \in JidServers :
        Entered("JID::new", <<user, server>>, Ok(JID_new(user, server), 0))

JidNewAd ==
    \E user \in BuiltUsers, agent \in {0, 7, 255}, device \in {0, 10, 255} :
        Entered("JID::new_ad", <<user, agent, device>>, Ok(JID_new_ad(user, agent, device), 0))

FromStr == \E s \in JidStrings : Entered("from_str", s, from_str(s))

\* One conversion of what the last call returned.
Converted(op, r) ==
    /\ phase = "jid"
    /\ ret.st = "ok"
    /\ ret.start < MaxConversions
    /\ ret' = [op |-> op, par |-> ret.val, start |-> ret.start + 1,
               st |-> r.st, val |-> r.val]
    /\ UNCHANGED <<data, panicked, arg, phase, dec, index, errors>>

\* to_string of the JID the last call returned.
JidToString ==
    /\ ret.op \in {"JID::new", "JID::new_ad", "from_str"}
    /\ Converted("to_string", Ok(to_string(ret.val), 0))

\* from_str of the string to_string returned.
FromToString ==
    /\ ret.op = "to_string"
    /\ Converted("from_str", from_str(ret.val))

\* is_empty of the JID the last call returned.
JidIsEmpty ==
    /\ ret.op \in {"JID::new", "JID::new_ad", "from_str"}
    /\ Converted("is_empty", Ok(is_empty(ret.val), 0))

\* JIDs through to_string, from_str and is_empty.
NextJid ==
    \/ JidNew
    \/ JidNewAd
    \/ FromStr
    \/ JidToString
    \/ FromToString
    \/ JidIsEmpty

SpecJid == Init /\ [][NextJid]_vars

\* Values as they stand in a received buffer: a token, the empty list, a
\* string, an AD-JID, the empty packed string, a packed string of odd length
\* without payload, one attribute pair, list headers, and BINARY blocks whose
\* length reaches behind the buffer or has its top bit set.
DecoderValues ==
    { Wire(write_string(BinaryEncoder_new, <<105, 100>>)),
      <<LIST_EMPTY>>,
      Wire(write_bytes(BinaryEncoder_new, <<104, 105>>)),
      Wire(write_jid(BinaryEncoder_new, JID_new_ad(<<53, 53, 53>>, 0, 1))),
      <<NIBBLE8, 0>>,
      <<NIBBLE8, 128>>,
      Wire(write_attributes(BinaryEncoder_new, << <<(<<104, 105>>), Str(<<105, 100>>)>> >>)),
      <<LIST8, 1>>,
      <<LIST16, 0, 3>>,
      <<BINARY8, 5>>,
      <<BINARY32, 128, 0, 0, 0>>,
      <<BINARY32, 255, 255, 255, 255>> }

MaxDecoderValues == 2

DecoderBuffers == { Flat(vs) : vs \in SeqsUpTo(DecoderValues, MaxDecoderValues) }

\* BinaryDecoder::new(&buf) on a received buffer.
Received ==
    /\ phase = "encode"
    /\ arg.op = "new"
    /\ \E buf \in DecoderBuffers :
          /\ arg' = [op |-> "BinaryDecoder::new", v |-> buf]
          /\ dec' = buf
    /\ phase' = "decode"
    /\ index' = 0
    /\ ret' = NoRet
    /\ UNCHANGED <<data, panicked, errors>>

\* read_bytes(length); the length -1 is usize::MAX, what `size as usize`
\* makes of the i32 -1.
ReadBytes ==
    \E length \in {0, 1, 2, 5, -1} :
        Decoded("read_bytes", length, read_bytes(dec, index, length))

ReadAttributes ==
    \E n \in {0, 1, 2} : Decoded("read_attributes", n, read_attributes(dec, index, n))

\* Any sequence of reads on the decoder of a received buffer.
NextDecoder ==
    \/ Received
    \/ ReadByte
    \/ ReadI8
    \/ ReadI16
    \/ ReadI20
    \/ ReadI32
    \/ ReadBytes
    \/ ReadListSize
    \/ Read
    \/ ReadAttributes
    \/ ReadNode

SpecDecoder == Init /\ [][NextDecoder]_vars

\* Trees over the tags "a" .. "d": two children with one tag, a first child
\* with the tag that has no children, a node without content, with bytes,
\* and with an empty list.
TreeLeaf(t) == MkNode(<<t>>, <<>>, NoContent)

TreeOf(t, nodes) == MkNode(<<t>>, <<>>, Children(nodes))

TreeInputs ==
    { TreeOf(97, <<TreeOf(98, <<TreeLeaf(99)>>), TreeOf(98, <<TreeLeaf(100)>>)>>),
      TreeOf(97, <<MkNode(<<98>>, <<>>, Bytes(<<1>>)), TreeOf(98, <<TreeLeaf(99)>>)>>),
      TreeOf(97, <<TreeLeaf(99), TreeOf(98, <<TreeOf(99, <<TreeLeaf(100)>>)>>)>>),
      TreeOf(97, <<TreeOf(98, <<TreeOf(98, <<TreeLeaf(99)>>)>>), TreeLeaf(99)>>),
      TreeOf(97, <<>>),
      TreeLeaf(97),
      MkNode(<<97>>, <<>>, Bytes(<<98>>)) }

MaxPath == 3

TagPaths == SeqsUpTo({<<98>>, <<99>>, <<100>>}, MaxPath)

\* node.get_optional_child_by_tag(&tags) on a tree of the model.
GetOptionalChildByTag ==
    /\ phase = "encode"
    /\ arg.op = "new"
    /\ \E n \in TreeInputs, tags \in TagPaths :
          /\ arg' = [op |-> "get_optional_child_by_tag", v |-> <<n, tags>>]
          /\ ret' = [op |-> "get_optional_child_by_tag", par |-> <<n, tags>>, start |-> 0,
                     st |-> "ok", val |-> get_optional_child_by_tag(n, tags)]
    /\ phase' = "tree"
    /\ UNCHANGED <<data, panicked, dec, index, errors>>

\* The same call on the node the last call returned.
GetChildOfFound ==
    /\ phase = "tree"
    /\ ret.start = 0
    /\ ret.val # <<>>
    /\ \E tags \in TagPaths :
          ret' = [op |-> "get_optional_child_by_tag", par |-> <<ret.val[1], tags>>,
                  start |-> 1, st |-> "ok",
                  val |-> get_optional_child_by_tag(ret.val[1], tags)]
    /\ UNCHANGED <<data, panicked, arg, phase, dec, index, errors>>

\* Walks through node trees.
NextTree ==
    \/ GetOptionalChildByTag
    \/ GetChildOfFound

SpecTree == Init /\ [][NextTree]_vars

\* The bytes of printed content: '0', 'a', '-', a line feed, the two-byte
\* sequences of U+00A9, U+00E9 (a sign, a letter) and a byte that is never
\* part of UTF-8.
PrintedBytes == {48, 97, 45, 10, 194, 195, 169, 255}

MaxPrinted == 3

\* Nodes with byte content, and one each without content, with children,
\* with a string and with attributes.
PrintedNodes ==
    { MkNode(<<97>>, <<>>, Bytes(b)) : b \in SeqsUpTo(PrintedBytes, MaxPrinted) }
        \cup { MkNode(<<97>>, <<>>, NoContent),
               MkNode(<<97>>, <<>>, Str(<<48, 10, 48>>)),
               MkNode(<<97>>, <<>>, Children(<<MkNode(<<98>>, <<>>, Bytes(<<255>>)),
                                              MkNode(<<98>>, <<>>, Bytes(<<48>>))>>)),
               MkNode(<<97>>, << <<(<<116, 111>>), Jid(JID_new(<<49>>, GROUP_SERVER))>>,
                                 <<(<<105, 100>>), Str(<<49>>)>> >>, NoContent) }

\* A call of the printer on a node of the model.
Printed(op, n, r) ==
    /\ phase = "encode"
    /\ arg.op = "new"
    /\ arg' = [op |-> op, v |-> n]
    /\ ret' = [op |-> op, par |-> n, start |-> 0, st |-> "ok", val |-> r]
    /\ phase' = "xml"
    /\ UNCHANGED <<data, panicked, dec, index, errors>>

ContentString == \E n \in PrintedNodes : Printed("content_string", n, content_string(n))

XmlString == \E n \in PrintedNodes : Printed("xml_string", n, xml_string(n))

\* Nodes through the XML printer.
NextXml ==
    \/ ContentString
    \/ XmlString

SpecXml == Init /\ [][NextXml]_vars

(***************************************************************************)
(* read_node call by call: arg.v is the stack of waiting frames, ret the   *)
(* call or the Result under way.                                           *)
(***************************************************************************)
StepNodes ==
    TreeInputs
        \cup { MkNode(<<97>>, a, c) :
                 a \in { << <<(<<105, 100>>), Str(<<49>>)>>,
                            <<(<<116, 111>>), Jid(JID_new(<<>>, GROUP_SERVER))>> >>,
                         << <<(<<116, 111>>), Jid(JID_new_ad(<<53, 53, 53>>, 0, 1))>> >> },
                 c \in { NoContent, Bytes(<<222, 173>>), Children(<<TreeLeaf(98)>>) } }

\* Encoded nodes, whole and cut short, and the buffers of the decoder.
StepBuffers ==
    DecoderBuffers
        \cup UNION { { SubSeq(w, 1, k) : k \in 0..Len(w) } :
                       w \in { Wire(write_node(BinaryEncoder_new, n)) : n \in StepNodes } }

MaxDepth == 12

\* BinaryDecoder::new on a buffer, and the call of read_node.
Decode ==
    /\ phase = "encode"
    /\ arg.op = "new"
    /\ \E buf \in StepBuffers : dec' = buf
    /\ arg' = [op |-> "read_node", v |-> <<>>]
    /\ phase' = "steps"
    /\ index' = 0
    /\ ret' = Calling("read_node", FALSE, 0)
    /\ UNCHANGED <<data, panicked, errors>>

Moved(s) ==
    /\ arg' = [arg EXCEPT !.v = s.stack]
    /\ index' = s.idx
    /\ ret' = s.ret
    /\ UNCHANGED <<data, panicked, phase, dec, errors>>

EnterReadNode ==
    /\ phase = "steps"
    /\ ret.op = "call"
    /\ ret.par = "read_node"
    /\ Len(arg.v) < MaxDepth
    /\ Moved(enter_read_node(arg.v, dec, index))

EnterRead ==
    /\ phase = "steps"
    /\ ret.op = "call"
    /\ ret.par = "read"
    /\ Len(arg.v) < MaxDepth
    /\ Moved(enter_read(arg.v, dec, index, ret.val.as_string))

EnterReadAttributes ==
    /\ phase = "steps"
    /\ ret.op = "call"
    /\ ret.par = "read_attributes"
    /\ Len(arg.v) < MaxDepth
    /\ Moved(enter_read_attributes(arg.v, index, ret.val.n))

Resume ==
    /\ phase = "steps"
    /\ ret.op = "return"
    /\ arg.v # <<>>
    /\ Moved(resume(arg.v, ResultOf(ret, index)))

NextSteps ==
    \/ Decode
    \/ EnterReadNode
    \/ EnterRead
    \/ EnterReadAttributes
    \/ Resume

\* The thread that called read_node runs on until the call has returned.
SpecSteps ==
    /\ Init
    /\ [][NextSteps]_vars
    /\ WF_vars(EnterReadNode \/ EnterRead \/ EnterReadAttributes \/ Resume)

(***************************************************************************)
(* Properties.                                                             *)
(***************************************************************************)
\* The encoder call made on the fresh encoder.
Wrote(op) == arg.op = op

\* The first call on the decoder over the encoder's output was op.
ReadBack(op) == phase = "decode" /\ ret.op = op /\ ret.start = 0

\* The bytes the encoder appended behind its leading 0x00.
Emitted == SubSeq(data, 2, Len(data))

\* The mapping an attribute list stands for.
AttrsMap(attrs) ==
    [k \in {attrs[j][1] : j \in 1..Len(attrs)} |->
        attrs[CHOOSE j \in 1..Len(attrs) :
                 attrs[j][1] = k /\ \A m \in (j + 1)..Len(attrs) : attrs[m][1] # k][2]]

\* The entries write_attributes puts on the wire.
RECURSIVE NonEmptyAttrs(_)
NonEmptyAttrs(attrs) ==
    IF attrs = <<>> THEN <<>>
    ELSE IF attrs[1][2].t = "String" /\ attrs[1][2].s = <<>>
         THEN NonEmptyAttrs(Tail(attrs))
         ELSE <<attrs[1]>> \o NonEmptyAttrs(Tail(attrs))

\* A tree of nodes with non-empty tags, no attributes, and content None, a
\* list of such nodes, or bytes.
RECURSIVE IsPlainTree(_)
IsPlainTree(n) ==
    /\ n.tag # <<>>
    /\ n.attrs = <<>>
    /\ n.content.t \in {"None", "ListOfNodes", "ByteArray"}
    /\ n.content.t = "ListOfNodes" =>
          \A k \in 1..Len(n.content.nodes) : IsPlainTree(n.content.nodes[k])

IsDigits(s) == s # <<>> /\ \A k \in 1..Len(s) : s[k] >= 48 /\ s[k] <= 57

\* No tag in the tree is the "0" that write_node writes as an empty list,
\* and no list of children is empty.
RECURSIVE IsOrdinaryTree(_)
IsOrdinaryTree(n) ==
    /\ n.tag # <<48>>
    /\ n.content.t = "ListOfNodes" =>
          /\ n.content.nodes # <<>>
          /\ \A k \in 1..Len(n.content.nodes) : IsOrdinaryTree(n.content.nodes[k])

\* C1: every tree of nodes with non-empty tags, no attributes and content
\* None, children or bytes is read back by read_node, from write_node's
\* output without its leading 0x00, as the same tree.  It is stated here for
\* the trees write_node has no special case for: no tag "0" and no empty list
\* of children.
C1_RoundTrip ==
    (Wrote("write_node") /\ ReadBack("read_node")
        /\ IsPlainTree(arg.v) /\ IsOrdinaryTree(arg.v))
        => (ret.st = "ok" /\ ret.val = arg.v)

\* C2: a node with an attribute whose value is String("") is written with the
\* list size 1 + 2 * (attribute pairs written) + (1 if content is present),
\* and is read back as the node without those attributes.
HasEmptyAttr(n) ==
    \E k \in 1..Len(n.attrs) : n.attrs[k][2].t = "String" /\ n.attrs[k][2].s = <<>>

C2_EmptyAttrsOmitted ==
    (Wrote("write_node") /\ HasEmptyAttr(arg.v) /\ arg.v.tag # <<48>>)
        => /\ Emitted[1] = LIST8
           /\ Emitted[2] = 1 + 2 * Len(NonEmptyAttrs(arg.v.attrs))
                             + (IF arg.v.content.t = "None" THEN 0 ELSE 1)
           /\ ReadBack("read_node") =>
                 /\ ret.st = "ok"
                 /\ ret.val.tag = arg.v.tag
                 /\ AttrsMap(ret.val.attrs) = AttrsMap(NonEmptyAttrs(arg.v.attrs))
                 /\ ret.val.content = arg.v.content

\* C3: a JID that is not an AD-JID is written as JID_PAIR, the user (or
\* LIST_EMPTY for the empty user), then the server, and read reads it back as
\* JID::new(user, server).
C3_PairJid ==
    (Wrote("write_jid") /\ ~is_ad(arg.v) /\ ReadBack("read"))
        => (ret.st = "ok" /\ ret.val = Jid(JID_new(arg.v.user, arg.v.server)))

\* C4: an AD-JID whose user is a non-empty string of decimal digits, as the
\* attribute value of a node with bytes as content, is read back as a JID
\* with the same user, agent and device and the server "s.whatsapp.net", and
\* the content as the same bytes.
IsAdJidNode(n) ==
    /\ n.tag # <<48>>
    /\ Len(n.attrs) = 1
    /\ n.attrs[1][2].t = "JID"
    /\ is_ad(n.attrs[1][2].jid)
    /\ IsDigits(n.attrs[1][2].jid.user)
    /\ n.content.t = "ByteArray"

C4_AdJidAttribute ==
    (Wrote("write_node") /\ IsAdJidNode(arg.v) /\ ReadBack("read_node"))
        => /\ ret.st = "ok"
           /\ DOMAIN AttrsMap(ret.val.attrs) = {arg.v.attrs[1][1]}
           /\ LET got == AttrsMap(ret.val.attrs)[arg.v.attrs[1][1]]
                  jid == arg.v.attrs[1][2].jid
              IN  /\ got.t = "JID"
                  /\ got.jid.user = jid.user
                  /\ got.jid.agent = jid.agent
                  /\ got.jid.device = jid.device
                  /\ got.jid.server = DEFAULT_USER_SERVER
           /\ ret.val.content = arg.v.content

C4_Witness ==
    /\ Wrote("write_node")
    /\ ReadBack("read_node")
    /\ arg.v = MkNode(<<109, 101, 115, 115, 97, 103, 101>>,
                      << << <<116, 111>>, Jid(JID_new_ad(<<53, 53, 53>>, 0, 1)) >> >>,
                      Bytes(<<222, 173, 190, 239>>))
    /\ ret.st = "ok"
    /\ ret.val.content = Bytes(<<222, 173, 190, 239>>)
    /\ index = Len(dec)

\* C5: read(as_string = true) reads every non-empty string back from the
\* bytes of write_string as the same string, and consumes exactly those bytes.
C5_StringRoundTrip ==
    (Wrote("write_string") /\ arg.v # <<>> /\ ReadBack("read") /\ ret.par = TRUE)
        => (ret.st = "ok" /\ ret.val = Str(arg.v) /\ index = Len(dec))


IsSingleToken(s) == \E i \in 2..Len(SINGLE_BYTE_TOKENS) : SINGLE_BYTE_TOKENS[i] = s

IsDoubleToken(s) ==
    \E d \in 1..Len(DOUBLE_BYTE_TOKENS) :
        \E i \in 1..Len(DOUBLE_BYTE_TOKENS[d]) : DOUBLE_BYTE_TOKENS[d][i] = s

IsNibbleString(s) ==
    Len(s) <= PACKED_MAX /\ \A k \in 1..Len(s) : s[k] \in (48..57) \cup {45, 46}

IsHexString(s) ==
    Len(s) <= PACKED_MAX
        /\ \A k \in 1..Len(s) : s[k] \in (48..57) \cup (65..70) \cup (97..102)

\* C6: write_string emits the first form that applies, in the order single-byte
\* token (one byte), double-byte token (DICTIONARY0 + d, then the inner byte),
\* packed nibbles, packed hex, length prefix and raw bytes.
C6_FormOrder ==
    Wrote("write_string") =>
        LET s == arg.v
            out == Emitted
        IN  IF IsSingleToken(s)
            THEN Len(out) = 1 /\ SINGLE_BYTE_TOKENS[out[1] + 1] = s
            ELSE IF IsDoubleToken(s)
            THEN /\ Len(out) = 2
                 /\ out[1] \in DICTIONARY0..DICTIONARY3
                 /\ DOUBLE_BYTE_TOKENS[out[1] - DICTIONARY0 + 1][out[2] + 1] = s
            ELSE IF IsNibbleString(s) THEN out[1] = NIBBLE8
            ELSE IF IsHexString(s) THEN out[1] = HEX8
            ELSE /\ out[1] \in {BINARY8, BINARY20, BINARY32}
                 /\ SubSeq(out, Len(out) - Len(s) + 1, Len(out)) = s

\* "1" is a single-byte token and a string of nibbles.
C6_Witness ==
    /\ Wrote("write_string")
    /\ arg.v = <<49>>
    /\ IsSingleToken(arg.v) /\ IsNibbleString(arg.v)
    /\ Len(Emitted) = 1

NibbleValue(c) == IF c = 45 THEN 10 ELSE IF c = 46 THEN 11 ELSE c - 48

HexValue(c) == IF c <= 57 THEN c - 48 ELSE IF c <= 70 THEN c - 55 ELSE c - 87

\* The tag, the length byte with the odd flag, and the pairs of symbols, the
\* last one padded with 15.
PackedLayout(tag, s, Value(_)) ==
    LET half == (Len(s) + 1) \div 2
    IN  <<tag, half + (IF Len(s) % 2 = 1 THEN 128 ELSE 0)>>
        \o [i \in 1..half |->
              16 * Value(s[2 * i - 1]) + (IF 2 * i <= Len(s) THEN Value(s[2 * i]) ELSE 15)]

\* C7 as stated: every string of nibbles of length <= PACKED_MAX is written as
\* NIBBLE8, the length byte and the packed pairs.
C7_PackedEveryNibbleString ==
    (Wrote("write_string") /\ IsNibbleString(arg.v))
        => Emitted = PackedLayout(NIBBLE8, arg.v, NibbleValue)

\* C7: every string of nibbles of length <= PACKED_MAX that is not a token is
\* written as NIBBLE8, a length byte holding ceil(|s|/2) and the odd flag, and
\* ceil(|s|/2) bytes (hi<<4)|lo, an odd last symbol padded with 15; a string
\* of hex digits that is neither a token nor a string of nibbles is written
\* the same way behind HEX8.
C7_PackedLayout ==
    (Wrote("write_string") /\ ~IsSingleToken(arg.v) /\ ~IsDoubleToken(arg.v))
        => /\ IsNibbleString(arg.v)
                => Emitted = PackedLayout(NIBBLE8, arg.v, NibbleValue)
           /\ (IsHexString(arg.v) /\ ~IsNibbleString(arg.v))
                => Emitted = PackedLayout(HEX8, arg.v, HexValue)
           /\ arg.v = <<49, 50, 51, 52, 53, 54, 55, 56, 57, 48>>
                => Emitted = <<NIBBLE8, 5, 18, 52, 86, 120, 144>>
           /\ arg.v = <<97, 98, 99, 100, 101, 102>>
                => Emitted = <<HEX8, 3, 171, 205, 239>>

\* A string of PACKED_MAX digits: odd, so flagged and padded.
C7_Witness ==
    /\ Wrote("write_string")
    /\ Len(arg.v) = PACKED_MAX
    /\ IsNibbleString(arg.v)
    /\ ~IsSingleToken(arg.v) /\ ~IsDoubleToken(arg.v)
    /\ ~panicked
    /\ Len(Emitted) = 66
    /\ Emitted[2] = 192
    /\ Emitted[66] % 16 = 15

\* The integer reader that belongs to a length prefix.
LengthReader(tag) ==
    IF tag = BINARY8 THEN "read_i_8" ELSE IF tag = BINARY20 THEN "read_i_20" ELSE "read_i_32"

\* C8: for 0 <= L < 2^31 write_byte_length writes BINARY8 and one byte for
\* L < 256, BINARY20 and three bytes for L < 2^20, BINARY32 and four
\* big-endian bytes otherwise, and the matching integer reader returns L.
C8_ByteLengthClasses ==
    (Wrote("write_byte_length") /\ arg.v.hi < 32768) =>
        LET L == arg.v.hi * 65536 + arg.v.lo
        IN  /\ ~panicked
            /\ Emitted = IF L < 256 THEN <<BINARY8, L>>
                         ELSE IF L < 2 ^ 20
                         THEN <<BINARY20, L \div 65536, (L \div 256) % 256, L % 256>>
                         ELSE <<BINARY32, L \div (2 ^ 24), (L \div 65536) % 256,
                                (L \div 256) % 256, L % 256>>
            /\ (phase = "decode" /\ ret.start = 1 /\ ret.op = LengthReader(dec[1]))
                  => (ret.st = "ok" /\ ret.val = L /\ index = Len(dec))

\* C9: for L >= 2^31 write_byte_length fails and writes no length prefix.
C9_ByteLengthOverflow ==
    (Wrote("write_byte_length") /\ arg.v.hi >= 32768)
        => (panicked /\ Emitted = <<>>)

\* C10: write_list_start(n) writes LIST_EMPTY for n = 0, LIST8 and one byte for
\* 1 <= n <= 255, LIST16 and two big-endian bytes for 256 <= n <= 65535, and
\* read_list_size on the tag read from those bytes returns n.
C10_ListStart ==
    (Wrote("write_list_start") /\ arg.v <= 65535) =>
        LET n == arg.v
        IN  /\ ~panicked
            /\ Emitted = IF n = 0 THEN <<LIST_EMPTY>>
                         ELSE IF n <= 255 THEN <<LIST8, n>>
                         ELSE <<LIST16, n \div 256, n % 256>>
            /\ (phase = "decode" /\ ret.op = "read_list_size" /\ ret.start = 1
                    /\ ret.par = dec[1])
                  => (ret.st = "ok" /\ ret.val = n /\ index = Len(dec))

C10_Witness ==
    /\ Wrote("write_list_start")
    /\ arg.v = 256
    /\ data = <<0, LIST16, 1, 0>>
    /\ phase = "decode"
    /\ ret.op = "read_list_size" /\ ret.start = 1 /\ ret.par = LIST16
    /\ ret.st = "ok" /\ ret.val = 256

\* unpack_data was called on buf; phase and dec hold what it returned.
Unpacked == arg.op = "unpack_data"

HasBit2(buf) == (buf[1] \div 2) % 2 = 1

\* C11: unpack_data returns the bytes behind the first byte, unchanged, for
\* every non-empty buffer whose first byte has bit 0x02 clear, and an error
\* for the empty buffer.
C11_UnpackPlain ==
    Unpacked =>
        /\ arg.v = <<>> => phase = "failed"
        /\ (arg.v # <<>> /\ ~HasBit2(arg.v))
              => (phase = "decode" /\ dec = SubSeq(arg.v, 2, Len(arg.v)))

\* First byte 0xFD: every bit but 0x02 is set.
C11_Witness ==
    /\ Unpacked
    /\ arg.v = <<253, 104, 105>>
    /\ phase = "decode"
    /\ dec = <<104, 105>>

\* C12: unpack_data returns rest for a first byte with bit 0x02 set followed
\* by the zlib compression of rest, whatever bytes rest holds.
C12_UnpackCompressed ==
    Unpacked =>
        \A rest \in Rests :
            (arg.v # <<>> /\ HasBit2(arg.v) /\ Tail(arg.v) = zlib(rest))
                => (phase = "decode" /\ dec = rest)

OptionalGetters ==
    {"optional_jid", "optional_jid_or_empty", "optional_string", "optional_bool",
     "optional_unix_time", "optional_i32"}

StrictGetters == {"jid", "string", "i64", "u64", "bool", "unix_time", "i32"}

KeyAbsent(key) == \A j \in 1..Len(arg.v) : arg.v[j][1] # key

ClaimedTrue ==
    { <<49>>, <<116>>, <<84>>,
      <<116, 114, 117, 101>>, <<84, 82, 85, 69>>, <<84, 114, 117, 101>> }

ClaimedFalse ==
    { <<48>>, <<102>>, <<70>>,
      <<102, 97, 108, 115, 101>>, <<70, 65, 76, 83, 69>>, <<70, 97, 108, 115, 101>> }

\* C14: the boolean getter returns true for "1", "t", "T", "true", "TRUE",
\* "True", false for "0", "f", "F", "false", "FALSE", "False", and absent for
\* every other string, with one error recorded by the strict variant and none
\* by the optional one.
C14_BoolGetter ==
    (phase = "attrs" /\ ret.op \in {"bool", "optional_bool"} /\ ~KeyAbsent(ret.par)
        /\ attrs_get(arg.v, ret.par)[1].t = "String") =>
        LET s == attrs_get(arg.v, ret.par)[1].s
        IN  IF s \in ClaimedTrue THEN ret.val = <<TRUE>> /\ Len(errors) = ret.start
            ELSE IF s \in ClaimedFalse THEN ret.val = <<FALSE>> /\ Len(errors) = ret.start
            ELSE /\ ret.val = <<>>
                 /\ Len(errors) = ret.start + (IF ret.op = "bool" THEN 1 ELSE 0)

\* The strict getter on "tRUE".
C14_Witness ==
    /\ phase = "attrs"
    /\ ret.op = "bool"
    /\ arg.v = << <<(<<105, 100>>), Str(<<116, 82, 85, 69>>)>> >>
    /\ ret.par = <<105, 100>>
    /\ ret.val = <<>>
    /\ Len(errors) = ret.start + 1

\* C15: the buffer of the encoder starts with 0x00, every call leaves the
\* bytes already in it where they are, and unpack_data on it returns the
\* buffer without its first byte.
C15_AppendOnly ==
    /\ [](/\ data # <<>>
          /\ data[1] = 0
          /\ unpack_data(data) = Ok(SubSeq(data, 2, Len(data)), 0)
          /\ phase = "decode" => dec = SubSeq(data, 2, Len(data)))
    /\ [][Len(data') >= Len(data) /\ SubSeq(data', 1, Len(data)) = data]_vars

\* push_byte(2), then write_string("iq"), then unpack_data: the second byte
\* of the buffer has bit 0x02 set and nothing is inflated.
C15_Witness ==
    /\ arg.op = "write_string"
    /\ Len(data) = 3
    /\ data[2] = 2
    /\ phase = "decode"
    /\ dec = SubSeq(data, 2, 3)

\* The list size read_node finds at cursor i: the byte read by read_i_8,
\* handed to read_list_size.
ListSizeAt(d, i) ==
    IF read_i_8(d, i, FALSE).st # "ok" THEN read_i_8(d, i, FALSE)
    ELSE read_list_size(d, read_i_8(d, i, FALSE).idx, read_i_8(d, i, FALSE).val)

\* The cursor after k values are read from cursor i.
RECURSIVE ValuesEnd(_, _, _)
ValuesEnd(d, i, k) ==
    IF k = 0 THEN i ELSE ValuesEnd(d, read(d, i, TRUE).idx, k - 1)

\* C16: a node read_node returns for list size s >= 1 is made of the tag and
\* floor((s - 1) / 2) attribute pairs; when s is odd the content is None and
\* the cursor stands behind the pairs, when s is even one further value is
\* read as the content.
C16_ListSize ==
    (ret.op = "read_node" /\ ret.st = "ok") =>
        LET s == ListSizeAt(dec, ret.start)
            after == ValuesEnd(dec, s.idx, 1 + 2 * ((s.val - 1) \div 2))
        IN  /\ s.st = "ok"
            /\ s.val >= 1
            /\ Len(ret.val.attrs) <= (s.val - 1) \div 2
            /\ IF s.val % 2 = 1
               THEN ret.val.content = NoContent /\ index = after
               ELSE read(dec, after, FALSE) = Ok(ret.val.content, index)

\* List size 4: the tag, one pair, and two bytes as the content.
C16_Witness ==
    /\ ret.op = "read_node"
    /\ ret.st = "ok"
    /\ ListSizeAt(dec, ret.start).val = 4
    /\ Len(ret.val.attrs) = 1
    /\ ret.val.content = Bytes(<<104, 105>>)
    /\ index = Len(dec)

\* Every node of the tree under n has a tag that is not empty.
RECURSIVE AllTagged(_)
AllTagged(n) ==
    /\ n.tag # <<>>
    /\ n.content.t = "ListOfNodes" =>
          \A k \in 1..Len(n.content.nodes) : AllTagged(n.content.nodes[k])

\* C17: every node read_node returns, at any depth, has a tag that is not
\* empty, and read_node fails with InvalidNode when the list size is 0 or the
\* tag is empty or no string.
C17_Tags ==
    ret.op = "read_node" =>
        /\ ret.st = "ok" => AllTagged(ret.val)
        /\ LET s == ListSizeAt(dec, ret.start)
               tag == read(dec, s.idx, TRUE)
               bad == \/ s.val = 0
                      \/ /\ tag.st = "ok"
                         /\ \/ tag.val.t # "String"
                            \/ tag.val.s = <<>>
           IN  (s.st = "ok" /\ bad) => (ret.st = "err" /\ ret.val = "InvalidNode")

\* A node with a child node is returned.
C17_Witness ==
    /\ ret.op = "read_node"
    /\ ret.st = "ok"
    /\ ret.val.content.t = "ListOfNodes"
    /\ Len(ret.val.content.nodes) = 1
    /\ AllTagged(ret.val)

\* C18: the content of a node read_node returns is None, a list of nodes or
\* bytes, never a String and never a JID.
C18_ContentTypes ==
    (ret.op = "read_node" /\ ret.st = "ok") =>
        ret.val.content.t \in {"None", "ListOfNodes", "ByteArray"}

\* The bytes a text denotes as a decimal number: the digits of n behind any
\* number of zeros and at most one '+'.
U8Value(t) ==
    { n \in 0..255 :
        \E z \in 0..Len(t) :
            \/ t = [k \in 1..z |-> 48] \o format_u8(n)
            \/ t = <<43>> \o [k \in 1..z |-> 48] \o format_u8(n) }

\* The text is the number as to_string writes it: no sign, no leading zero.
IsCanonical(t) == \E n \in 0..255 : t = format_u8(n)

\* from_str has returned for the string in arg.v.
Parsed == arg.op = "from_str" /\ ret.op = "from_str" /\ ret.start = 0

\* to_string has returned for the JID parsed from arg.v.
Returned == arg.op = "from_str" /\ ret.op = "to_string" /\ ret.start = 1

\* arg.v is "u.a:d@s.whatsapp.net".
IsAdString(u, a, d) == arg.v = AdText(u, a, d) \o <<64>> \o DEFAULT_USER_SERVER

\* "u.a:d@s.whatsapp.net" parses to the AD-JID when a and d denote bytes,
\* and to an error when one of them does not.
ParsedAd ==
    \A u \in JidUsers, a \in NumeralTexts, d \in NumeralTexts :
        IsAdString(u, a, d) =>
            IF U8Value(a) # {} /\ U8Value(d) # {}
            THEN /\ ret.st = "ok"
                 /\ ret.val = JID_new_ad(u, CHOOSE n \in U8Value(a) : TRUE,
                                         CHOOSE n \in U8Value(d) : TRUE)
            ELSE ret.st = "err"

\* arg.v is left@server, and from_str returned the pair JID of the two.
ParsedPair(left, server) ==
    arg.v = left \o <<64>> \o server => (ret.st = "ok" /\ ret.val = JID_new(left, server))

\* C19 (as amended): "u.a:d@s.whatsapp.net", the dot before the colon,
\* parses to the AD-JID (u, a, d) when a and d are decimal numbers in 0..255
\* (zeros and one '+' in front allowed) and to an error when one is not;
\* to_string gives the string back when a and d are written without sign and
\* leading zeros; with the colon before the dot and the server s.whatsapp.net
\* the parse is an error; every other left@server is the pair JID.
C19_Parse ==
    /\ Parsed =>
          /\ ParsedAd
          /\ \A l \in SwappedLefts :
                arg.v = l \o <<64>> \o DEFAULT_USER_SERVER => ret.st = "err"
          /\ \A l \in JidLefts, srv \in JidServers :
                (l \in AdLefts \cup SwappedLefts /\ srv = DEFAULT_USER_SERVER)
                    \/ ParsedPair(l, srv)
    /\ Returned =>
          \A u \in JidUsers, a \in NumeralTexts, d \in NumeralTexts :
              (IsAdString(u, a, d) /\ IsCanonical(a) /\ IsCanonical(d)) => ret.val = arg.v

\* "ab.0:7@s.whatsapp.net" is parsed and written back.
C19_Witness ==
    /\ Returned
    /\ IsAdString(<<97, 98>>, <<48>>, <<55>>)
    /\ ret.par = JID_new_ad(<<97, 98>>, 0, 7)
    /\ ret.val = arg.v

\* C19 as the specification states it: to_string gives the string back for
\* every a and d in 0..255, and every left@server that is no AD form is the
\* pair JID.
C19_ParseAsStated ==
    /\ Parsed =>
          /\ ParsedAd
          /\ \A l \in JidLefts, srv \in JidServers :
                (l \in AdLefts /\ srv = DEFAULT_USER_SERVER) \/ ParsedPair(l, srv)
    /\ Returned =>
          \A u \in JidUsers, a \in NumeralTexts, d \in NumeralTexts :
              (IsAdString(u, a, d) /\ U8Value(a) # {} /\ U8Value(d) # {})
                  => ret.val = arg.v

\* C20: a JID built by JID::new or JID::new_ad with a user that is not empty
\* is what from_str makes of its to_string.
C20_RoundTrip ==
    (arg.op \in {"JID::new", "JID::new_ad"} /\ ret.op = "from_str" /\ ret.start = 2) =>
        (arg.v[1] # <<>> =>
            /\ ret.st = "ok"
            /\ ret.val = IF arg.op = "JID::new" THEN JID_new(arg.v[1], arg.v[2])
                         ELSE JID_new_ad(arg.v[1], arg.v[2], arg.v[3]))

\* C21: is_empty returns true exactly for a JID whose server is the empty
\* string: true for EMPTY_JID, false for every JID with a server.
C21_IsEmpty ==
    ret.op = "is_empty" =>
        /\ ret.val = (ret.par.server = <<>>)
        /\ ret.par = EMPTY_JID => ret.val = TRUE

\* The pair at cursor i is a key that decodes as a string and a value that
\* decodes as a string or a JID.
PairGood(d, i) ==
    /\ read(d, i, TRUE).st = "ok"
    /\ read(d, i, TRUE).val.t = "String"
    /\ read(d, read(d, i, TRUE).idx, TRUE).st = "ok"
    /\ read(d, read(d, i, TRUE).idx, TRUE).val.t \in {"String", "JID"}

\* What read_attributes has to return when the pair at cursor i is not good.
PairFailure(d, i) ==
    LET key == read(d, i, TRUE)
        value == read(d, key.idx, TRUE)
    IN  IF key.st # "ok" THEN ret.st = key.st
        ELSE IF key.val.t # "String" THEN ret.st = "err" /\ ret.val = "NonStringKey"
        ELSE IF value.st # "ok" THEN ret.st = value.st
        ELSE ret.st = "err" /\ ret.val = "InvalidType"

\* C22: read_attributes(n) returns a map only when each of the n keys decodes
\* as a string and each value as a string or a JID; the first key of another
\* variant gives NonStringKey, the first value of another variant gives an
\* invalid-type error, and no map is returned then.
C22_AttributeTypes ==
    ret.op = "read_attributes" =>
        LET pos(j) == ValuesEnd(dec, ret.start, 2 * j)
            bad == { j \in 0..(ret.par - 1) :
                        /\ \A m \in 0..(j - 1) : PairGood(dec, pos(m))
                        /\ ~PairGood(dec, pos(j)) }
        IN  /\ ret.st = "ok" <=> bad = {}
            /\ \A j \in bad : PairFailure(dec, pos(j))
            /\ ret.st = "ok" =>
                  /\ Len(ret.val) <= ret.par
                  /\ \A k \in 1..Len(ret.val) : ret.val[k][2].t \in {"String", "JID"}

\* The key is the token "id" and the value the empty list.
C22_Witness ==
    /\ ret.op = "read_attributes"
    /\ ret.par = 1
    /\ ret.start = 0
    /\ dec = <<8, LIST_EMPTY>>
    /\ ret.st = "err"
    /\ ret.val = "InvalidType"

\* The node a walk along tags ends at: at each hop the child of least index
\* whose tag is the hop's tag, <<>> when there is none.
RECURSIVE Walk(_, _)
Walk(n, tags) ==
    IF tags = <<>> THEN <<n>>
    ELSE IF n.content.t # "ListOfNodes" THEN <<>>
    ELSE LET hits == { k \in 1..Len(n.content.nodes) : n.content.nodes[k].tag = tags[1] }
         IN  IF hits = {} THEN <<>>
             ELSE Walk(n.content.nodes[Least(hits)], Tail(tags))

\* C23: get_optional_child_by_tag takes at each hop the first child with the
\* hop's tag, returns absent when a hop finds none or the node has no child
\* list, never goes back to a later sibling, and returns the node itself for
\* the empty path.
C23_FirstChildWalk ==
    ret.op = "get_optional_child_by_tag" =>
        /\ ret.val = Walk(ret.par[1], ret.par[2])
        /\ ret.par[2] = <<>> => ret.val = <<ret.par[1]>>

\* The path "b", "d" in a(b(c), b(d)): d is under the second b only.
C23_Witness ==
    /\ ret.op = "get_optional_child_by_tag"
    /\ ret.par[1] =
          TreeOf(97, <<TreeOf(98, <<TreeLeaf(99)>>), TreeOf(98, <<TreeLeaf(100)>>)>>)
    /\ ret.par[2] = <<(<<98>>), (<<100>>)>>
    /\ ret.val = <<>>

\* The byte is an ASCII letter or digit.
IsAsciiAlphanumeric(c) ==
    \/ c >= 48 /\ c <= 57
    \/ c >= 65 /\ c <= 90
    \/ c >= 97 /\ c <= 122

\* C24: byte content is printed as the text itself when every byte is
\* alphanumeric, and as the lowercase hexadecimal digits of the bytes in
\* every other case.  (Decided here for ASCII bytes and for bytes that are
\* not UTF-8; letters outside ASCII are left open.)
C24_ByteContent ==
    (ret.op = "content_string" /\ ret.par.content.t = "ByteArray") =>
        LET bytes == ret.par.content.bytes
        IN  /\ (\A k \in 1..Len(bytes) : IsAsciiAlphanumeric(bytes[k])) => ret.val = <<bytes>>
            /\ (\/ ~IsUtf8(bytes)
                \/ \E k \in 1..Len(bytes) : bytes[k] < 128 /\ ~IsAsciiAlphanumeric(bytes[k]))
                   => ret.val = <<hex_encode(bytes)>>

\* The number of bytes a primitive read asks for; -1 is usize::MAX.
Requested ==
    CASE ret.op \in {"read_byte", "read_i_8"} -> 1
      [] ret.op = "read_i_16" -> 2
      [] ret.op = "read_i_20" -> 3
      [] ret.op = "read_i_32" -> 4
      [] ret.op = "read_bytes" -> ret.par

\* C25: the cursor stays within 0 .. buffer length and is never behind where
\* the call began; a primitive read that asks for k bytes when fewer than k
\* remain returns an error and leaves the cursor where it was, and otherwise
\* advances it by exactly k.
C25_Cursor ==
    /\ 0 <= index
    /\ index <= Len(dec)
    /\ ret.op # "none" => index >= ret.start
    /\ ret.op \in {"read_byte", "read_i_8", "read_i_16", "read_i_20", "read_i_32",
                   "read_bytes"} =>
          IF Requested < 0 \/ Len(dec) - ret.start < Requested
          THEN ret.st = "err" /\ index = ret.start
          ELSE ret.st = "ok" /\ index = ret.start + Requested

\* C27: read and read_node return a value or an error for every buffer; they
\* never panic.
C27_Total ==
    ret.op \in {"read", "read_node"} => ret.st \in {"ok", "err"}


\* C26: a call on the AttrUtility keeps the errors recorded so far, in order,
\* and appends at most one; the attribute map stays as it is; ok() is true
\* exactly when no error is recorded, and error() returns a value exactly when
\* ok() is false.
C26_Accumulation ==
    /\ [][(phase = "attrs" /\ phase' = "attrs") =>
            /\ Len(errors') \in {Len(errors), Len(errors) + 1}
            /\ SubSeq(errors', 1, Len(errors)) = errors
            /\ arg' = arg]_vars
    /\ [](/\ (phase = "attrs" /\ ret.op = "ok") => (ret.val = (errors = <<>>))
          /\ (phase = "attrs" /\ ret.op = "error") => ((ret.val # <<>>) = (errors # <<>>)))

\* error() after a strict getter added a second error to the list.
C26_Witness ==
    /\ phase = "attrs"
    /\ ret.op = "error"
    /\ ret.val # <<>>
    /\ Len(ret.val[1].detail) = 2
    /\ ret.val[1].detail[1] # ret.val[1].detail[2]


\* C28: a strict getter that returns absent has appended an error during that
\* call.
C28_StrictAbsent ==
    (phase = "attrs" /\ ret.op \in StrictGetters /\ ret.val = <<>>) =>
        Len(errors) = ret.start + 1

I32_MIN_TEXT == <<50, 49, 52, 55, 52, 56, 51, 54, 52, 56>>

I32_MAX_TEXT == <<50, 49, 52, 55, 52, 56, 51, 54, 52, 55>>

\* The parsed number lies in -2^31 .. 2^31 - 1.
InI32(p) == DecLe(p.mag, IF p.neg THEN I32_MIN_TEXT ELSE I32_MAX_TEXT)

\* The integer a parsed number in that range denotes.
Denoted(p) ==
    LET V[k \in 0..Len(p.mag)] ==
            IF k = 0 THEN 0
            ELSE IF p.neg THEN V[k - 1] * 10 - (p.mag[k] - 48)
            ELSE V[k - 1] * 10 + (p.mag[k] - 48)
    IN  V[Len(p.mag)]

\* C29: i32 and optional_i32 return a value only for a text whose number lies
\* in the i32 range, and then that number.
C29_I32Exact ==
    (phase = "attrs" /\ ret.op \in {"i32", "optional_i32"} /\ ret.val # <<>>) =>
        LET p == parse_i64(attrs_get(arg.v, ret.par)[1].s)[1]
        IN  InI32(p) /\ ret.val[1] = Denoted(p)


\* read_node has returned to the caller of the decoder.
Finished == phase = "steps" /\ ret.op = "return" /\ arg.v = <<>>

\* A read or a read_node returned Ok without moving the cursor, or more
\* frames wait than bytes are consumed.
Stalled ==
    IF phase # "steps" THEN FALSE
    ELSE \/ Len(arg.v) > index
         \/ Len(arg.v) >= MaxDepth
         \/ /\ ret.op = "return"
            /\ ret.st = "ok"
            /\ ret.par \in {"read", "read_node"}
            /\ index <= ret.start

\* read_node has returned, with the Result the function computes.
Answered ==
    IF Finished
    THEN ResultOf(ret, index) = read_node(dec, 0)
    ELSE FALSE

=============================================================================
